---------------------------- MODULE Spec2Model ----------------------------
(***************************************************************************)
(* PDFSplit: the page-splitting engine (PDFProcessor / PDFProcessorSimple), *)
(* the range and page-list parsers of PDFSplitApp, filename generation, and *)
(* the upload, split and reset handlers of PDFSplitApp with their awaits.   *)
(*                                                                         *)
(* Text is modelled as a sequence of one-character strings, so that        *)
(* trimming, splitting, parseInt and the extension regex are computed the  *)
(* way the JavaScript computes them.                                       *)
(***************************************************************************)
EXTENDS Integers, Sequences, FiniteSets, TLC

VARIABLES
    currentPDF,       \* PDFSplitApp.currentPDF: the loaded document (its page sequence) or Null
    currentFileName,  \* PDFSplitApp.currentFileName
    splitResults,     \* PDFSplitApp.splitResults
    uiError,          \* message shown by uiController.showError ("" when none)
    loadingOverlay,   \* uiController loading overlay visible
    resultsShown,     \* uiController results section visible
    calls,            \* one frame per splitPDF invocation (an async call and its locals)
    nextUrl,          \* number of blob URLs handed out by URL.createObjectURL so far
    docsCreated,      \* number of PDFLib.PDFDocument.create() calls so far
    formRead,         \* what handleSplit read from the form: mode, field text, getSplitOptions' value
    uploads,          \* one frame per handleFileUpload invocation (an async call and its locals)
    previewShown,     \* uiController preview section visible
    revokedUrls,      \* the blob URLs passed to URL.revokeObjectURL so far
    env,              \* the page's globals: PDFLib and pdfjsLib defined, window.pdfJsAvailable
    downloadManager,  \* the DownloadManager: activeUrls, downloadQueue, isProcessingQueue
    dmEnv             \* around the DownloadManager: its processQueue/downloadAll calls in flight,
                      \* the link clicks made, the URLs it created, the pending revoke timers

\* the state written by the upload and reset handlers only
uploadVars == <<uploads, previewShown, revokedUrls, env>>

vars == <<currentPDF, currentFileName, splitResults, uiError, loadingOverlay,
          resultsShown, calls, nextUrl, docsCreated, formRead, uploads, previewShown,
          revokedUrls, env, downloadManager, dmEnv>>

\* the state of the DownloadManager and of the calls made on it
dmVars == <<downloadManager, dmEnv>>

-----------------------------------------------------------------------------
(* Bounds of the model *)

MaxPages == 3        \* documents have 0..MaxPages pages
MaxRanges == 2       \* a ranges plan given directly to the engine has at most this many ranges
MaxPageList == 3     \* a page list given directly to the engine has at most this many entries
MaxTextLen == 4      \* a typed option text has at most this many characters
MaxStemLen == 2      \* characters in front of the extension part of an enumerated filename

Null == [null |-> TRUE]
CallIds == {1, 2}

-----------------------------------------------------------------------------
(* JavaScript text primitives *)

Digits == <<"0", "1", "2", "3", "4", "5", "6", "7", "8", "9">>

IsDigit(c) == \E d \in 1..10 : Digits[d] = c

DigitVal(c) == (CHOOSE d \in 1..10 : Digits[d] = c) - 1

IsSpace(c) == c = " "

\* All sequences over S of length at most n
BSeq(S, n) == UNION {[1..m -> S] : m \in 0..n}

RECURSIVE TrimStart(_)
TrimStart(s) ==
    IF s # <<>> /\ IsSpace(Head(s)) THEN TrimStart(Tail(s)) ELSE s

RECURSIVE TrimEnd(_)
TrimEnd(s) ==
    IF s # <<>> /\ IsSpace(s[Len(s)]) THEN TrimEnd(SubSeq(s, 1, Len(s) - 1)) ELSE s

\* String.prototype.trim
Trim(s) == TrimEnd(TrimStart(s))

\* String.prototype.includes for a one-character needle
Includes(s, c) == \E i \in 1..Len(s) : s[i] = c

\* String.prototype.split for a one-character separator: always at least one piece
RECURSIVE Split(_, _)
Split(s, sep) ==
    IF ~Includes(s, sep) THEN <<s>>
    ELSE LET i == CHOOSE j \in 1..Len(s) :
                     s[j] = sep /\ \A k \in 1..(j - 1) : s[k] # sep
         IN  <<SubSeq(s, 1, i - 1)>> \o Split(SubSeq(s, i + 1, Len(s)), sep)

\* A JavaScript number that may be NaN
NaN == [nan |-> TRUE, n |-> 0]
Num(v) == [nan |-> FALSE, n |-> v]

\* value of a digit string, most significant digit first
RECURSIVE DigitsValue(_)
DigitsValue(s) ==
    IF s = <<>> THEN 0
    ELSE 10 * DigitsValue(SubSeq(s, 1, Len(s) - 1)) + DigitVal(s[Len(s)])

\* longest prefix of s made of digits
RECURSIVE DigitPrefix(_)
DigitPrefix(s) ==
    IF s # <<>> /\ IsDigit(Head(s)) THEN <<Head(s)>> \o DigitPrefix(Tail(s)) ELSE <<>>

\* parseInt(s): leading white space skipped, optional sign, then the longest run
\* of decimal digits; whatever follows is ignored; NaN when there is no digit.
ParseInt(s) ==
    LET t == TrimStart(s)
        signed == t # <<>> /\ Head(t) \in {"-", "+"}
        body == IF signed THEN Tail(t) ELSE t
        ds == DigitPrefix(body)
    IN  IF ds = <<>> THEN NaN
        ELSE IF signed /\ Head(t) = "-" THEN Num(0 - DigitsValue(ds))
        ELSE Num(DigitsValue(ds))

\* truthiness of a number: NaN and 0 are falsy
Truthy(x) == ~x.nan /\ x.n # 0

\* a <= b and a > b on numbers: every comparison with NaN is false
NumLe(a, b) == ~a.nan /\ ~b.nan /\ a.n <= b.n
NumGt(a, b) == ~a.nan /\ ~b.nan /\ a.n > b.n

\* String(n) for an integer
RECURSIVE NatStr(_)
NatStr(n) ==
    IF n < 10 THEN <<Digits[n + 1]>>
    ELSE NatStr(n \div 10) \o <<Digits[(n % 10) + 1]>>

IntStr(n) == IF n < 0 THEN <<"-">> \o NatStr(0 - n) ELSE NatStr(n)

\* Array.prototype.join of numbers with a separator text
RECURSIVE Join(_, _)
Join(nums, sep) ==
    IF nums = <<>> THEN <<>>
    ELSE IF Len(nums) = 1 THEN IntStr(nums[1])
    ELSE IntStr(nums[1]) \o sep \o Join(Tail(nums), sep)

\* insertion of x into an ascending sequence, after the elements equal to it
RECURSIVE InsertSorted(_, _)
InsertSorted(x, s) ==
    IF s = <<>> THEN <<x>>
    ELSE IF x < Head(s) THEN <<x>> \o s
    ELSE <<Head(s)>> \o InsertSorted(x, Tail(s))

\* Array.prototype.sort((a, b) => a - b): ascending, stable
RECURSIVE SortAsc(_)
SortAsc(s) ==
    IF s = <<>> THEN <<>>
    ELSE InsertSorted(s[Len(s)], SortAsc(SubSeq(s, 1, Len(s) - 1)))

-----------------------------------------------------------------------------
(* PDFSplitApp: the parsers of the option texts *)

\* the ranges one comma-separated part contributes: none or one
RangeOfPart(part) ==
    LET trimmed == Trim(part)
    IN  IF Includes(trimmed, "-")
        THEN LET pieces == Split(trimmed, "-")
                 start == ParseInt(Trim(pieces[1]))
                 end == ParseInt(Trim(pieces[2]))
             IN  IF Truthy(start) /\ Truthy(end) /\ NumLe(start, end)
                 THEN <<[start |-> start.n, end |-> end.n]>>
                 ELSE <<>>
        ELSE LET pageNum == ParseInt(trimmed)
             IN  IF Truthy(pageNum)
                 THEN <<[start |-> pageNum.n, end |-> pageNum.n]>>
                 ELSE <<>>

RECURSIVE RangesOfParts(_)
RangesOfParts(parts) ==
    IF parts = <<>> THEN <<>>
    ELSE RangeOfPart(Head(parts)) \o RangesOfParts(Tail(parts))

\* PDFSplitApp.parsePageRanges
parsePageRanges(rangesString) == RangesOfParts(Split(rangesString, ","))

\* .map(p => parseInt(p.trim())).filter(p => p > 0)
RECURSIVE PositiveNumbers(_)
PositiveNumbers(parts) ==
    IF parts = <<>> THEN <<>>
    ELSE LET p == ParseInt(Trim(Head(parts)))
         IN  (IF NumGt(p, Num(0)) THEN <<p.n>> ELSE <<>>) \o PositiveNumbers(Tail(parts))

\* PDFSplitApp.parsePageNumbers
parsePageNumbers(pagesString) == SortAsc(PositiveNumbers(Split(pagesString, ",")))

\* messages of uiController.showError (the source shows them in Chinese)
ErrInvalidCount == "enter a valid page count"
ErrNoRanges == "enter page ranges"
ErrNoPages == "choose the pages to extract"
ErrNoFile == "upload a PDF file first"

\* a test that rejects NaN only
PagesPerFileRejectedNaNOnly(pagesPerFile) == pagesPerFile.nan

\* !pagesPerFile || pagesPerFile < 1
PagesPerFileRejected(pagesPerFile) == ~Truthy(pagesPerFile) \/ pagesPerFile.n < 1

\* PDFSplitApp.getSplitOptions(mode), value being the text of the input field the
\* mode reads: the options object, or Null together with the error it shows
getSplitOptions(mode, value) ==
    CASE mode = "pages" ->
            LET pagesPerFile == ParseInt(value)
            IN  IF PagesPerFileRejected(pagesPerFile)
                THEN [options |-> Null, error |-> ErrInvalidCount]
                ELSE [options |-> [pagesPerFile |-> pagesPerFile.n], error |-> ""]
      [] mode = "range" ->
            IF Trim(value) = <<>>
            THEN [options |-> Null, error |-> ErrNoRanges]
            ELSE [options |-> [ranges |-> parsePageRanges(value)], error |-> ""]
      [] mode = "extract" ->
            IF Trim(value) = <<>>
            THEN [options |-> Null, error |-> ErrNoPages]
            ELSE [options |-> [pages |-> parsePageNumbers(value)], error |-> ""]
      [] OTHER -> [options |-> Null, error |-> ""]

-----------------------------------------------------------------------------
(* PDFProcessor: filenames *)

\* the regex without its i flag: /\.pdf$/
EndsWithPdfCaseSensitive(s) ==
    /\ Len(s) >= 4
    /\ SubSeq(s, Len(s) - 3, Len(s)) = <<".", "p", "d", "f">>

\* the text ends with ".pdf", whatever the case of the letters: /\.pdf$/i
EndsWithPdf(s) ==
    /\ Len(s) >= 4
    /\ s[Len(s) - 3] = "."
    /\ s[Len(s) - 2] \in {"p", "P"}
    /\ s[Len(s) - 1] \in {"d", "D"}
    /\ s[Len(s)] \in {"f", "F"}

\* originalFilename.replace(/\.pdf$/i, '')
StripPdfExt(s) == IF EndsWithPdf(s) THEN SubSeq(s, 1, Len(s) - 4) ELSE s

\* a filename numbered by the documents created so far instead of named by its suffix
generateFilenameNumbered(originalFilename, suffix) ==
    StripPdfExt(originalFilename) \o <<"_">> \o NatStr(docsCreated) \o <<".", "p", "d", "f">>

\* PDFProcessor.generateFilename
generateFilename(originalFilename, suffix) ==
    StripPdfExt(originalFilename) \o <<"_">> \o suffix \o <<".", "p", "d", "f">>

-----------------------------------------------------------------------------
(* pdf-lib documents, as the processor uses them *)

\* the object loadPDF returns for a document of n pages: pdfLib is the pdf-lib
\* document, here its page sequence, each page a distinct identity
LoadedPDF(n) == [pdfLib |-> [j \in 1..n |-> j]]

\* pdf.getPageCount()
getPageCount(pdf) == Len(pdf.pdfLib)

\* newPDF.copyPages(source, pageIndices) accepts only indices of existing pages
CanCopy(source, pageIndices) ==
    \A j \in 1..Len(pageIndices) : pageIndices[j] \in 0..(Len(source) - 1)

\* only the first copied page is added to the new document
CopyPagesFirstOnly(source, pageIndices) ==
    IF pageIndices = <<>> THEN <<>> ELSE <<source[pageIndices[1] + 1]>>

\* newPDF.copyPages(source, pageIndices) followed by addPage of each copy, in order
CopyPages(source, pageIndices) ==
    [j \in 1..Len(pageIndices) |-> source[pageIndices[j] + 1]]

\* createPDFFromPages looping while i < endPage: the last page of every group is lost
PageIndexRangeExclusive(startPage, endPage) ==
    IF endPage <= startPage THEN <<>>
    ELSE [j \in 1..(endPage - startPage) |-> startPage + j - 1]

\* the loop of createPDFFromPages: startPage, startPage + 1, ..., endPage
PageIndexRange(startPage, endPage) ==
    IF endPage < startPage THEN <<>>
    ELSE [j \in 1..(endPage - startPage + 1) |-> startPage + j - 1]

\* newPDF.save(): the serialized document, one unit per page between header and trailer
Save(newPDF) == <<"%PDF-">> \o newPDF \o <<"%%EOF">>

\* PDFLib.PDFDocument.load(buffer): the pages between header and trailer; it throws
\* when the bytes are no serialized document
PDFDocumentLoad(buffer) ==
    IF Len(buffer) >= 2 /\ buffer[1] = "%PDF-" /\ buffer[Len(buffer)] = "%%EOF"
    THEN [throws |-> FALSE, pages |-> SubSeq(buffer, 2, Len(buffer) - 1)]
    ELSE [throws |-> TRUE, pages |-> <<>>]

Min(a, b) == IF a <= b THEN a ELSE b
Max(a, b) == IF a >= b THEN a ELSE b

-----------------------------------------------------------------------------
(* PDFProcessor: one frame per splitPDF call *)

ErrUnsupportedMode == "Unsupported split mode"
ErrNoValidPages == "No valid pages to extract"
ErrCopy == "page index out of bounds"

IdleFrame ==
    [pc |-> "idle", caller |-> "", pdf |-> Null, mode |-> "", options |-> [none |-> TRUE],
     originalFilename |-> <<>>, i |-> 0, results |-> <<>>, groups |-> <<>>,
     blobs |-> <<>>, error |-> ""]

\* the filter without its lower bound: pages.filter(p => p <= totalPages)
RECURSIVE ValidPagesNoLowerBound(_, _)
ValidPagesNoLowerBound(pages, totalPages) ==
    IF pages = <<>> THEN <<>>
    ELSE (IF Head(pages) <= totalPages THEN <<Head(pages)>> ELSE <<>>)
         \o ValidPagesNoLowerBound(Tail(pages), totalPages)

\* pages.filter(p => p >= 1 && p <= totalPages)
RECURSIVE ValidPages(_, _)
ValidPages(pages, totalPages) ==
    IF pages = <<>> THEN <<>>
    ELSE (IF Head(pages) >= 1 /\ Head(pages) <= totalPages THEN <<Head(pages)>> ELSE <<>>)
         \o ValidPages(Tail(pages), totalPages)

\* validPages.map(p => p - 1)
PagesToIndices(validPages) == [j \in 1..Len(validPages) |-> validPages[j] - 1]

\* the result object pushed for one written file; url is the blob URL just created
ResultOf(filename, url, pdfBytes, pageInfo) ==
    [filename |-> filename, url |-> url, size |-> Len(pdfBytes), pageInfo |-> pageInfo]

\* the suffix naming the 0-based indices, without the + 1 of the 1-based page numbers
PagesSuffixZeroBased(startPage, endPage) ==
    <<"p", "a", "g", "e", "s", "_">> \o IntStr(startPage) \o <<"-">> \o IntStr(endPage)

PagesSuffix(startPage, endPage) ==
    <<"p", "a", "g", "e", "s", "_">> \o IntStr(startPage + 1) \o <<"-">> \o IntStr(endPage + 1)

RangeSuffix(range) ==
    <<"r", "a", "n", "g", "e", "_">> \o IntStr(range.start) \o <<"-">> \o IntStr(range.end)

ExtractSuffix(validPages) ==
    <<"e", "x", "t", "r", "a", "c", "t", "e", "d", "_", "p", "a", "g", "e", "s", "_">>
        \o Join(validPages, <<"-">>)

PageInfoRange(a, b) == <<"P", "a", "g", "e", "s", " ">> \o IntStr(a) \o <<"-">> \o IntStr(b)

PageInfoList(validPages) == <<"P", "a", "g", "e", "s", " ">> \o Join(validPages, <<",", " ">>)

\* PDFProcessor.splitPDF: the dispatch on the mode, and the part of the chosen
\* method that runs before its first await
SplitPDF(c, caller, pdf, mode, options, originalFilename) ==
    /\ calls[c].pc = "idle"
    /\ LET f == [IdleFrame EXCEPT !.caller = caller, !.pdf = pdf, !.mode = mode,
                                  !.options = options,
                                  !.originalFilename = originalFilename]
       IN  calls' = [calls EXCEPT ![c] =
              CASE mode = "pages" -> [f EXCEPT !.pc = "pages"]
                [] mode = "range" -> [f EXCEPT !.pc = "range"]
                [] mode = "extract" ->
                      IF ValidPages(options.pages, getPageCount(pdf)) = <<>>
                      THEN [f EXCEPT !.pc = "failed", !.error = ErrNoValidPages]
                      ELSE [f EXCEPT !.pc = "extract"]
                [] OTHER -> [f EXCEPT !.pc = "failed", !.error = ErrUnsupportedMode]]

\* the effect of writing one file holding pageIndices of the source: a new document,
\* the copy, the save, the blob URL and the result pushed
EmitFile(c, pageIndices, suffix, pageInfo, nextPc, nextI) ==
    LET f == calls[c]
    IN  IF CanCopy(f.pdf.pdfLib, pageIndices)
        THEN LET newPDF == CopyPages(f.pdf.pdfLib, pageIndices)
                 pdfBytes == Save(newPDF)
                 filename == generateFilename(f.originalFilename, suffix)
                 url == nextUrl + 1
             IN  /\ calls' = [calls EXCEPT ![c] =
                        [f EXCEPT !.pc = nextPc, !.i = nextI,
                                  !.results = Append(@, ResultOf(filename, url, pdfBytes, pageInfo)),
                                  !.groups = Append(@, pageIndices),
                                  !.blobs = Append(@, pdfBytes)]]
                 /\ nextUrl' = nextUrl + 1
                 /\ docsCreated' = docsCreated + 1
        ELSE /\ calls' = [calls EXCEPT ![c] = [f EXCEPT !.pc = "failed", !.error = ErrCopy]]
             /\ docsCreated' = docsCreated + 1
             /\ UNCHANGED nextUrl

\* PDFProcessor.splitByPages: one pass of the loop body
SplitByPagesIter(c) ==
    LET f == calls[c]
        pagesPerFile == f.options.pagesPerFile
        totalPages == getPageCount(f.pdf)
        startPage == f.i
        endPage == Min(f.i + pagesPerFile - 1, totalPages - 1)
    IN  /\ f.pc = "pages"
        /\ f.i < totalPages
        /\ EmitFile(c, PageIndexRange(startPage, endPage), PagesSuffix(startPage, endPage),
                    PageInfoRange(startPage + 1, endPage + 1), "pages", f.i + pagesPerFile)
        /\ UNCHANGED <<currentPDF, currentFileName, splitResults, uiError, loadingOverlay,
                       resultsShown, formRead, uploadVars, dmVars>>

\* PDFProcessor.splitByPages: the loop condition fails and the results are returned
SplitByPagesReturn(c) ==
    /\ calls[c].pc = "pages"
    /\ ~(calls[c].i < getPageCount(calls[c].pdf))
    /\ calls' = [calls EXCEPT ![c].pc = "done"]
    /\ UNCHANGED <<currentPDF, currentFileName, splitResults, uiError, loadingOverlay,
                   resultsShown, nextUrl, docsCreated, formRead, uploadVars, dmVars>>

\* the guard of splitByRanges without its first test, startPage > endPage
RangeDroppedNoOrderTest(range, totalPages) ==
    LET startPage == Max(1, range.start) - 1
        endPage == Min(range.end, totalPages) - 1
    IN  startPage < 0 \/ endPage >= totalPages

\* a guard that drops every range reaching outside the document instead of the
\* ranges left empty by the clamping
RangeDroppedUnclamped(range, totalPages) ==
    range.start > range.end \/ range.start < 1 \/ range.end > totalPages

\* the range of the current pass is dropped by the guard of splitByRanges
RangeDropped(range, totalPages) ==
    LET startPage == Max(1, range.start) - 1
        endPage == Min(range.end, totalPages) - 1
    IN  startPage > endPage \/ startPage < 0 \/ endPage >= totalPages

\* PDFProcessor.splitByRanges: one pass of the loop body
SplitByRangesIter(c) ==
    LET f == calls[c]
        ranges == f.options.ranges
        totalPages == getPageCount(f.pdf)
        range == ranges[f.i + 1]
        startPage == Max(1, range.start) - 1
        endPage == Min(range.end, totalPages) - 1
    IN  /\ f.pc = "range"
        /\ f.i < Len(ranges)
        /\ IF RangeDropped(range, totalPages)
           THEN /\ calls' = [calls EXCEPT ![c].i = f.i + 1]
                /\ UNCHANGED <<nextUrl, docsCreated>>
           ELSE EmitFile(c, PageIndexRange(startPage, endPage), RangeSuffix(range),
                         PageInfoRange(range.start, range.end), "range", f.i + 1)
        /\ UNCHANGED <<currentPDF, currentFileName, splitResults, uiError, loadingOverlay,
                       resultsShown, formRead, uploadVars, dmVars>>

\* PDFProcessor.splitByRanges: the loop condition fails and the results are returned
SplitByRangesReturn(c) ==
    /\ calls[c].pc = "range"
    /\ ~(calls[c].i < Len(calls[c].options.ranges))
    /\ calls' = [calls EXCEPT ![c].pc = "done"]
    /\ UNCHANGED <<currentPDF, currentFileName, splitResults, uiError, loadingOverlay,
                   resultsShown, nextUrl, docsCreated, formRead, uploadVars, dmVars>>

\* PDFProcessor.extractPages after the validity check: the single file is written
\* and returned
ExtractPagesEmit(c) ==
    LET f == calls[c]
        validPages == ValidPages(f.options.pages, getPageCount(f.pdf))
    IN  /\ f.pc = "extract"
        /\ EmitFile(c, PagesToIndices(validPages), ExtractSuffix(validPages),
                    PageInfoList(validPages), "done", 0)
        /\ UNCHANGED <<currentPDF, currentFileName, splitResults, uiError, loadingOverlay,
                       resultsShown, formRead, uploadVars, dmVars>>

\* the await of copyPages or of save rejects in the pass that was about to write a
\* file: the exception leaves the loop and splitPDF, and no results are returned
CopyOrSaveFails(c) ==
    LET f == calls[c]
    IN  /\ \/ f.pc = "pages" /\ f.i < getPageCount(f.pdf)
           \/ /\ f.pc = "range"
              /\ f.i < Len(f.options.ranges)
              /\ ~RangeDropped(f.options.ranges[f.i + 1], getPageCount(f.pdf))
           \/ f.pc = "extract"
        /\ calls' = [calls EXCEPT ![c] = [f EXCEPT !.pc = "failed", !.error = ErrCopy]]
        /\ docsCreated' = docsCreated + 1
        /\ UNCHANGED <<currentPDF, currentFileName, splitResults, uiError, loadingOverlay,
                       resultsShown, nextUrl, formRead, uploadVars, dmVars>>

-----------------------------------------------------------------------------
(* PDFSplitApp.handleSplit *)

ErrSplitPrefix == "split failed: "

\* handleSplit up to its await: the checks, getSplitOptions on the field the selected
\* mode reads (holding value) and the call of splitPDF
HandleSplitOn(c, splitMode, value) ==
    IF currentPDF = Null
    THEN /\ uiError' = ErrNoFile
         /\ UNCHANGED <<currentPDF, currentFileName, splitResults, loadingOverlay,
                        resultsShown, calls, nextUrl, docsCreated, formRead, uploadVars, dmVars>>
    ELSE LET got == getSplitOptions(splitMode, value)
         IN  /\ formRead' = [splitMode |-> splitMode, value |-> value,
                             splitOptions |-> got.options]
             /\ IF got.options = Null
                THEN /\ uiError' = IF got.error = "" THEN uiError ELSE got.error
                     /\ loadingOverlay' = FALSE
                     /\ UNCHANGED calls
                ELSE /\ loadingOverlay' = TRUE
                     /\ SplitPDF(c, "handleSplit", currentPDF, splitMode, got.options,
                                 currentFileName)
                     /\ UNCHANGED uiError
             /\ UNCHANGED <<currentPDF, currentFileName, splitResults, resultsShown,
                            nextUrl, docsCreated, uploadVars, dmVars>>

\* handleSplit after its await resolved: the results are stored and shown
HandleSplitResume(c) ==
    /\ calls[c].pc = "done"
    /\ calls[c].caller = "handleSplit"
    /\ splitResults' = calls[c].results
    /\ loadingOverlay' = FALSE
    /\ resultsShown' = TRUE
    /\ calls' = [calls EXCEPT ![c] = IdleFrame]
    /\ previewShown' = FALSE
    /\ UNCHANGED <<currentPDF, currentFileName, uiError, nextUrl, docsCreated, formRead,
                   uploads, revokedUrls, env, dmVars>>

\* a catch block that keeps the files written before the failure and shows them
HandleSplitCatchPartial(c) ==
    /\ calls[c].pc = "failed"
    /\ calls[c].caller = "handleSplit"
    /\ loadingOverlay' = FALSE
    /\ uiError' = ErrSplitPrefix \o calls[c].error
    /\ splitResults' = calls[c].results
    /\ resultsShown' = TRUE
    /\ calls' = [calls EXCEPT ![c] = IdleFrame]
    /\ UNCHANGED <<currentPDF, currentFileName, nextUrl, docsCreated, formRead, uploadVars, dmVars>>

\* handleSplit after its await rejected: the catch block
HandleSplitCatch(c) ==
    /\ calls[c].pc = "failed"
    /\ calls[c].caller = "handleSplit"
    /\ loadingOverlay' = FALSE
    /\ uiError' = ErrSplitPrefix \o calls[c].error
    /\ calls' = [calls EXCEPT ![c] = IdleFrame]
    /\ UNCHANGED <<currentPDF, currentFileName, splitResults, resultsShown, nextUrl,
                   docsCreated, formRead, uploadVars, dmVars>>

-----------------------------------------------------------------------------
(* FileHandler.validateFile and PDFSplitApp.handleFileUpload.  A file is        *)
(* [name, type, size, head, tail, pages, content]: head and tail are its first  *)
(* five and last six bytes, pages is the page count pdf-lib finds (-1 when      *)
(* pdf-lib cannot parse the bytes), content identifies the bytes.               *)

UploadIds == {1, 2}

maxFileSize == 50 * 1024 * 1024
MinFileSize == 1024
allowedTypes == {"application/pdf"}

ErrNotPdfName == "upload a PDF file (.pdf format)"
ErrBadType == "incorrect file type"
ErrTooLarge == "file size cannot exceed 50MB"
ErrEmptyFile == "file cannot be empty"
ErrTooSmall == "file is too small"
ErrReadFailed == "failed to read file"
ErrBadHeader == "not a valid PDF file format"
ErrPdfLibMissing == "PDF-lib library not loaded"
ErrInvalidPdf == "invalid PDF format"
ErrEncrypted == "encrypted PDF files are not supported"
ErrCompressed == "PDF compression format not supported"
ErrMissingPdf == "not a valid PDF format"
ErrNetwork == "network error"
ErrLibraryFailed == "PDF library failed to load"
ErrLibsNotLoaded == "PDF processing libraries not loaded correctly"
ErrTimeout == "PDF processing timeout"
ErrUnsupportedFeature == "PDF contains unsupported features"
ErrProcessingPrefix == "error processing PDF file:"
ErrNoDocument == "cannot read properties of null"
ErrUploadPrefix == "upload failed: "

\* String.prototype.toLowerCase on the letters file names are built from
toLowerCase(s) ==
    [j \in 1..Len(s) |->
        CASE s[j] = "P" -> "p" [] s[j] = "D" -> "d" [] s[j] = "F" -> "f"
          [] s[j] = "R" -> "r" [] OTHER -> s[j]]

\* validateFile without its test of the minimal size
validateFileNoMinimum(file) ==
    CASE ~EndsWithPdfCaseSensitive(toLowerCase(file.name)) -> ErrNotPdfName
      [] file.type # "" /\ file.type \notin allowedTypes -> ErrBadType
      [] file.size > maxFileSize -> ErrTooLarge
      [] file.size = 0 -> ErrEmptyFile
      [] OTHER -> ""

\* FileHandler.validateFile: the error of the first failing check, "" when valid
validateFile(file) ==
    CASE ~EndsWithPdfCaseSensitive(toLowerCase(file.name)) -> ErrNotPdfName
      [] file.type # "" /\ file.type \notin allowedTypes -> ErrBadType
      [] file.size > maxFileSize -> ErrTooLarge
      [] file.size = 0 -> ErrEmptyFile
      [] file.size < MinFileSize -> ErrTooSmall
      [] OTHER -> ""

\* the five bytes a PDF file starts with, and the marker it ends with
PdfMagic == <<"%", "P", "D", "F", "-">>
EofMarker == <<"%", "%", "E", "O", "F">>

\* validatePDFHeader's look at the last six bytes: it only warns
TrailerWarning(file) ==
    /\ file.size > 10
    /\ ~\E i \in 0..(Len(file.tail) - Len(EofMarker)) :
            SubSeq(file.tail, i + 1, i + Len(EofMarker)) = EofMarker

\* FileHandler.validatePDFHeader on the buffer read from the file
validatePDFHeader(file) ==
    IF file.size < Len(PdfMagic) THEN FALSE
    ELSE IF file.head # PdfMagic THEN FALSE
    ELSE TRUE

\* the frame of a handleFileUpload call that is not running; outcome, nameBefore and
\* pdfBefore record how the last call ended and what it found when it began
IdleUpload ==
    [pc |-> "idle", file |-> Null, pdfDoc |-> Null, outcome |-> "",
     nameBefore |-> <<>>, pdfBefore |-> Null]

\* the processor the constructor chose
usingSimpleProcessor == ~env.pdfJsAvailable

\* the object loadPDF returns: the pdf-lib document, the PDF.js document when there
\* is one, the buffer it was loaded from, and the isSimplified mark
LoadResult(pages, pdfJS, buffer, isSimplified) ==
    [pdfLib |-> [j \in 1..pages |-> j], pdfJS |-> pdfJS, buffer |-> buffer,
     isSimplified |-> isSimplified]

\* handleFileUpload up to its first await: validation, then the file name is stored
HandleFileUploadOn(u, file) ==
    /\ uploads[u].pc = "idle"
    /\ LET started == [IdleUpload EXCEPT !.file = file, !.nameBefore = currentFileName,
                                         !.pdfBefore = currentPDF]
       IN  IF validateFile(file) # ""
           THEN /\ uiError' = validateFile(file)
                /\ uploads' = [uploads EXCEPT ![u] = [started EXCEPT !.outcome = "invalid"]]
                /\ UNCHANGED currentFileName
           ELSE /\ currentFileName' = file.name
                /\ uiError' = ""
                /\ uploads' = [uploads EXCEPT ![u] = [started EXCEPT !.pc = "readFile"]]
    /\ UNCHANGED <<currentPDF, splitResults, loadingOverlay, resultsShown, calls, nextUrl,
                   docsCreated, formRead, previewShown, revokedUrls, env, dmVars>>

\* the catch block of handleFileUpload: the progress is hidden and the error shown
UploadCatch(u, outcome, message) ==
    /\ uiError' = ErrUploadPrefix \o message
    /\ uploads' = [uploads EXCEPT ![u] = [@ EXCEPT !.pc = "idle", !.outcome = outcome]]

\* fileHandler.readFile resolves: the reader succeeded and the header is %PDF-
ReadFileResolve(u) ==
    /\ uploads[u].pc = "readFile"
    /\ validatePDFHeader(uploads[u].file)
    /\ uploads' = [uploads EXCEPT ![u].pc = "loadPDF"]
    /\ UNCHANGED <<currentPDF, currentFileName, splitResults, uiError, loadingOverlay,
                   resultsShown, calls, nextUrl, docsCreated, formRead, previewShown,
                   revokedUrls, env, dmVars>>

\* fileHandler.readFile rejects: the reader failed, or the header is not %PDF-
ReadFileReject(u) ==
    /\ uploads[u].pc = "readFile"
    /\ UploadCatch(u, "readFailed",
                   IF validatePDFHeader(uploads[u].file) THEN ErrReadFailed ELSE ErrBadHeader)
    /\ UNCHANGED <<currentPDF, currentFileName, splitResults, loadingOverlay,
                   resultsShown, calls, nextUrl, docsCreated, formRead, previewShown,
                   revokedUrls, env, dmVars>>

\* loadPDF of the chosen processor up to the end of PDFLib.PDFDocument.load, and
\* the assignment of its result to currentPDF when it returns there
LoadPDFLib(u) ==
    LET file == uploads[u].file
    IN  /\ uploads[u].pc = "loadPDF"
        /\ IF ~env.PDFLib \/ file.pages < 0
           THEN /\ UploadCatch(u, "loadFailed",
                               IF ~env.PDFLib THEN ErrPdfLibMissing ELSE ErrInvalidPdf)
                /\ UNCHANGED currentPDF
           ELSE IF usingSimpleProcessor \/ ~env.pdfjsLib
           THEN /\ currentPDF' = LoadResult(file.pages, Null, file.content,
                                            ~usingSimpleProcessor)
                /\ uploads' = [uploads EXCEPT ![u].pc = "thumbnails"]
                /\ UNCHANGED uiError
           ELSE /\ uploads' = [uploads EXCEPT ![u].pc = "pdfjs", ![u].pdfDoc = file.pages]
                /\ UNCHANGED <<currentPDF, uiError>>
        /\ UNCHANGED <<currentFileName, splitResults, loadingOverlay, resultsShown, calls,
                       nextUrl, docsCreated, formRead, previewShown, revokedUrls, env, dmVars>>

\* PDFProcessor.loadPDF: the PDF.js loading task wins the race; the full result is
\* returned and assigned to currentPDF
LoadPDFJsResolve(u) ==
    /\ uploads[u].pc = "pdfjs"
    /\ currentPDF' = LoadResult(uploads[u].pdfDoc, "pdfViewer", uploads[u].file.content, FALSE)
    /\ uploads' = [uploads EXCEPT ![u].pc = "thumbnails"]
    /\ UNCHANGED <<currentFileName, splitResults, uiError, loadingOverlay, resultsShown,
                   calls, nextUrl, docsCreated, formRead, previewShown, revokedUrls, env, dmVars>>

\* an error as loadPDF's catch block sees it: its name and its message, word by word
PdfJsTimeoutError == [name |-> "Error", message |-> <<"PDF.js", "loading", "timeout">>]

\* what a PDF.js loading task may reject with
PdfJsErrors ==
    {[name |-> "InvalidPDFException", message |-> <<"Invalid", "PDF", "structure">>],
     [name |-> "PasswordException", message |-> <<"No", "password", "given">>],
     [name |-> "UnexpectedResponseException", message |-> <<"Unexpected", "response">>],
     [name |-> "Error", message |-> <<"worker", "timeout">>],
     [name |-> "Error", message |-> <<"boom">>]}

\* String.prototype.includes on messages, word by word
MessageIncludes(message, words) ==
    \E i \in 0..(Len(message) - Len(words)) :
        SubSeq(message, i + 1, i + Len(words)) = words

RECURSIVE MessageText(_)
\* the message as one text
MessageText(message) ==
    IF message = <<>> THEN "" ELSE " " \o Head(message) \o MessageText(Tail(message))

\* the catch block of loadPDF with the 'timeout' test left out
LoadErrorMessageNoTimeoutCase(error) ==
    IF MessageIncludes(error.message, <<"Invalid", "PDF">>) \/ error.name = "InvalidPDFException"
    THEN ErrInvalidPdf
    ELSE IF MessageIncludes(error.message, <<"password">>) \/ error.name = "PasswordException"
    THEN ErrEncrypted
    ELSE ErrProcessingPrefix \o MessageText(error.message)

\* the catch block of loadPDF: the message thrown for the error caught
LoadErrorMessage(error) ==
    IF MessageIncludes(error.message, <<"Invalid", "PDF">>) \/ error.name = "InvalidPDFException"
    THEN ErrInvalidPdf
    ELSE IF MessageIncludes(error.message, <<"password">>) \/ error.name = "PasswordException"
    THEN ErrEncrypted
    ELSE IF MessageIncludes(error.message, <<"compressed">>)
    THEN ErrCompressed
    ELSE IF error.name = "MissingPDFException"
    THEN ErrMissingPdf
    ELSE IF error.name = "UnexpectedResponseException"
    THEN ErrNetwork
    ELSE IF MessageIncludes(error.message, <<"Cannot", "read", "properties">>)
    THEN ErrLibraryFailed
    ELSE IF \/ MessageIncludes(error.message, <<"PDFLib", "is", "not", "defined">>)
            \/ MessageIncludes(error.message, <<"pdfjsLib", "is", "not", "defined">>)
    THEN ErrLibsNotLoaded
    ELSE IF MessageIncludes(error.message, <<"timeout">>)
    THEN ErrTimeout
    ELSE IF MessageIncludes(error.message, <<"Unsupported", "feature">>)
    THEN ErrUnsupportedFeature
    ELSE ErrProcessingPrefix \o MessageText(error.message)

\* PDFProcessor.loadPDF: the PDF.js loading task rejects before the timer fires
LoadPDFJsReject(u) ==
    /\ uploads[u].pc = "pdfjs"
    /\ \E error \in PdfJsErrors : UploadCatch(u, "loadFailed", LoadErrorMessage(error))
    /\ UNCHANGED <<currentPDF, currentFileName, splitResults, loadingOverlay,
                   resultsShown, calls, nextUrl, docsCreated, formRead, previewShown,
                   revokedUrls, env, dmVars>>

\* PDFProcessor.loadPDF: the 10 s timer fires before the loading task has settled
LoadPDFJsTimeout(u) ==
    /\ uploads[u].pc = "pdfjs"
    /\ UploadCatch(u, "loadFailed", LoadErrorMessage(PdfJsTimeoutError))
    /\ UNCHANGED <<currentPDF, currentFileName, splitResults, loadingOverlay,
                   resultsShown, calls, nextUrl, docsCreated, formRead, previewShown,
                   revokedUrls, env, dmVars>>

\* generateThumbnails (a failing page gets a fallback thumbnail), updateFileInfo,
\* displayThumbnails and showPreviewSection; generateThumbnails reads this.currentPDF
GenerateThumbnails(u) ==
    /\ uploads[u].pc = "thumbnails"
    /\ IF currentPDF = Null
       THEN /\ UploadCatch(u, "thumbnailsFailed", ErrNoDocument)
            /\ UNCHANGED previewShown
       ELSE /\ previewShown' = TRUE
            /\ uploads' = [uploads EXCEPT ![u] = [@ EXCEPT !.pc = "idle", !.outcome = "shown"]]
            /\ UNCHANGED uiError
    /\ UNCHANGED <<currentPDF, currentFileName, splitResults, loadingOverlay,
                   resultsShown, calls, nextUrl, docsCreated, formRead, revokedUrls, env, dmVars>>

\* the steps of a running handleFileUpload call
Upload(u) ==
    \/ ReadFileResolve(u)
    \/ ReadFileReject(u)
    \/ LoadPDFLib(u)
    \/ LoadPDFJsResolve(u)
    \/ LoadPDFJsReject(u)
    \/ LoadPDFJsTimeout(u)
    \/ GenerateThumbnails(u)

\* the URLs of a list of results
UrlsOf(results) == {results[j].url : j \in 1..Len(results)}

\* PDFSplitApp.resetApp: the data is cleared, the sections are reset, and the URLs
\* of this.splitResults, read after it was cleared, are revoked
resetApp ==
    LET cleared == <<>>
    IN  /\ currentPDF' = Null
        /\ currentFileName' = <<>>
        /\ splitResults' = cleared
        /\ uiError' = ""
        /\ previewShown' = FALSE
        /\ resultsShown' = FALSE
        /\ revokedUrls' = revokedUrls \cup UrlsOf(cleared)
        /\ UNCHANGED <<loadingOverlay, calls, nextUrl, docsCreated, formRead, uploads, env, dmVars>>

-----------------------------------------------------------------------------
(* DownloadManager (downloadManager.js): blob URLs, the download queue and  *)
(* the processQueue loop with its await between two downloads.              *)

DmCallIds == {1, 2}
MaxUrls == 2
MaxClicks == 2
MaxQueue == 1
DefaultDelay == 100

\* every variable the DownloadManager neither reads nor writes
appVars == <<currentPDF, currentFileName, splitResults, uiError, loadingOverlay,
             resultsShown, calls, docsCreated, formRead, uploads, previewShown, env>>

\* constructor
NewDownloadManager ==
    [activeUrls |-> {}, downloadQueue |-> <<>>, isProcessingQueue |-> FALSE]

\* a processQueue or downloadAll call that has not been made yet
IdleDmCall ==
    [pc |-> "idle", i |-> 0, results |-> <<>>, viaDownloadAll |-> FALSE,
     busyAtCall |-> FALSE, outcome |-> ""]

IdleDmEnv ==
    [calls |-> [k \in DmCallIds |-> IdleDmCall], clicks |-> <<>>, created |-> {},
     timers |-> {}]

\* URL 0 stands for a string that is not a blob: URL; createObjectURL hands out 1, 2, ...
IsBlobUrl(url) == url >= 1

\* the manager, the calls around it and the URLs revoked so far, as one value
DmState == [dm |-> downloadManager, e |-> dmEnv, revoked |-> revokedUrls]

DmCommit(st) ==
    /\ downloadManager' = st.dm
    /\ dmEnv' = st.e
    /\ revokedUrls' = st.revoked

\* revokeUrl that forgets to drop the URL from activeUrls
RevokeUrlKeepsActive(st, url) ==
    IF IsBlobUrl(url) THEN [st EXCEPT !.revoked = @ \cup {url}] ELSE st

\* revokeUrl(url)
RevokeUrlOn(st, url) ==
    IF IsBlobUrl(url)
    THEN [st EXCEPT !.revoked = @ \cup {url}, !.dm.activeUrls = @ \ {url}]
    ELSE st

\* downloadFile(url, filename, revokeUrl): the link click, then the one-second revoke timer
DownloadFileOn(st, url, filename, revoke) ==
    [st EXCEPT !.e.clicks = Append(@, [url |-> url, filename |-> filename]),
               !.e.timers = IF revoke THEN @ \cup {url} ELSE @]

\* addToQueue(url, filename) with the default delay
AddToQueueOn(st, url, filename) ==
    [st EXCEPT !.dm.downloadQueue =
                   Append(@, [url |-> url, filename |-> filename, delay |-> DefaultDelay])]

RECURSIVE AddAllToQueue(_, _)
\* results.forEach(result => this.addToQueue(result.url, result.filename))
AddAllToQueue(st, results) ==
    IF results = <<>> THEN st
    ELSE AddAllToQueue(AddToQueueOn(st, Head(results).url, Head(results).filename),
                       Tail(results))

\* processQueue's entry test that looks at the queue only
ProcessQueueSkipsEmptyOnly(st) == st.dm.downloadQueue = <<>>

\* processQueue's entry test: a loop is running, or there is nothing to download
ProcessQueueSkips(st) == st.dm.isProcessingQueue \/ st.dm.downloadQueue = <<>>

\* the loop has run off the queue: clear it, then the finally block
ProcessQueueEnd(st, k) ==
    [st EXCEPT !.dm.downloadQueue = <<>>,
               !.dm.isProcessingQueue = FALSE,
               !.e.calls[k].pc = "done",
               !.e.calls[k].outcome = "ended"]

\* the progress callback or the DOM throws inside the loop: catch rethrows, then finally
ProcessQueueThrow(st, k) ==
    [st EXCEPT !.dm.isProcessingQueue = FALSE,
               !.e.calls[k].pc = "done",
               !.e.calls[k].outcome = "threw"]

\* the for loop from index i (0-based) up to its next await or its end
ProcessQueueFrom(st, k, i, throws) ==
    LET queue == st.dm.downloadQueue
    IN  IF i < Len(queue)
        THEN IF throws THEN ProcessQueueThrow(st, k)
             ELSE LET item == queue[i + 1]
                      clicked == DownloadFileOn(st, item.url, item.filename, FALSE)
                  IN  IF i < Len(queue) - 1
                      THEN [clicked EXCEPT !.e.calls[k].pc = "delay", !.e.calls[k].i = i]
                      ELSE ProcessQueueEnd(clicked, k)
        ELSE ProcessQueueEnd(st, k)

\* processQueue() up to its first await
ProcessQueueOn(st, k, throws) ==
    LET called == [st EXCEPT !.e.calls[k].busyAtCall = st.dm.isProcessingQueue]
    IN  IF ProcessQueueSkips(called)
        THEN [called EXCEPT !.e.calls[k].pc = "done", !.e.calls[k].outcome = "returned"]
        ELSE ProcessQueueFrom([called EXCEPT !.dm.isProcessingQueue = TRUE], k, 0, throws)

ErrNothingToDownload == "nothing to download"

\* downloadAll(results) up to its first await
DownloadAllOn(st, k, results, throws) ==
    LET called == [st EXCEPT !.e.calls[k].results = results,
                             !.e.calls[k].viaDownloadAll = TRUE]
    IN  IF results = <<>>
        THEN [called EXCEPT !.e.calls[k].pc = "done",
                            !.e.calls[k].outcome = ErrNothingToDownload]
        ELSE ProcessQueueOn(
                 AddAllToQueue([called EXCEPT !.dm.downloadQueue = <<>>], results),
                 k, throws)

\* createDownloadUrl(data)
createDownloadUrl ==
    /\ nextUrl < MaxUrls
    /\ nextUrl' = nextUrl + 1
    /\ downloadManager' = [downloadManager EXCEPT !.activeUrls = @ \cup {nextUrl + 1}]
    /\ dmEnv' = [dmEnv EXCEPT !.created = @ \cup {nextUrl + 1}]
    /\ UNCHANGED <<appVars, revokedUrls>>

\* revokeUrl(url)
revokeUrl(url) ==
    /\ DmCommit(RevokeUrlOn(DmState, url))
    /\ UNCHANGED <<appVars, nextUrl>>

\* the name a download is saved under
FileNameOf(url) == <<"f">> \o NatStr(url)

\* downloadFile(url, filename, revokeUrl)
downloadFile(url, revoke) ==
    /\ Len(dmEnv.clicks) < MaxClicks
    /\ DmCommit(DownloadFileOn(DmState, url, FileNameOf(url), revoke))
    /\ UNCHANGED <<appVars, nextUrl>>

\* the timer set by downloadFile fires
RevokeTimer(url) ==
    /\ url \in dmEnv.timers
    /\ DmCommit(RevokeUrlOn([DmState EXCEPT !.e.timers = @ \ {url}], url))
    /\ UNCHANGED <<appVars, nextUrl>>

\* cleanupAll()
cleanupAll ==
    /\ downloadManager' = [downloadManager EXCEPT !.activeUrls = {}, !.downloadQueue = <<>>]
    /\ revokedUrls' = revokedUrls \cup downloadManager.activeUrls
    /\ UNCHANGED <<appVars, nextUrl, dmEnv>>

\* addToQueue(url, filename)
addToQueue(url) ==
    /\ Len(downloadManager.downloadQueue) < MaxQueue
    /\ DmCommit(AddToQueueOn(DmState, url, FileNameOf(url)))
    /\ UNCHANGED <<appVars, nextUrl>>

\* a caller invokes processQueue() directly
processQueue(k, throws) ==
    /\ dmEnv.calls[k].pc = "idle"
    /\ dmEnv.calls[k].outcome = ""
    /\ DmCommit(ProcessQueueOn(DmState, k, throws))
    /\ UNCHANGED <<appVars, nextUrl>>

\* a caller invokes downloadAll(results)
downloadAll(k, results, throws) ==
    /\ dmEnv.calls[k].pc = "idle"
    /\ dmEnv.calls[k].outcome = ""
    /\ DmCommit(DownloadAllOn(DmState, k, results, throws))
    /\ UNCHANGED <<appVars, nextUrl>>

\* the delay awaited between two downloads is over: i++ and the loop test
ProcessQueueResume(k, throws) ==
    /\ dmEnv.calls[k].pc = "delay"
    /\ DmCommit(ProcessQueueFrom(DmState, k, dmEnv.calls[k].i + 1, throws))
    /\ UNCHANGED <<appVars, nextUrl>>

-----------------------------------------------------------------------------
(* Inputs *)

NameXPdf == <<"x", ".", "p", "d", "f">>
NameReportPDF == <<"R", "e", "p", "o", "r", "t", ".", "P", "D", "F">>

\* the mode tags of the form, and a tag the processor does not know
SplitModes == {"pages", "range", "extract"}
UnknownMode == "merge"

\* page numbers given directly to the engine: from below the first page to beyond the last
PageValues == 0..(MaxPages + 1)

\* the plans handed directly to splitPDF
PlansOf(mode) ==
    CASE mode = "range" ->
            {[ranges |-> rs] : rs \in BSeq([start : PageValues, end : PageValues], MaxRanges)}
      [] mode = "extract" ->
            {[pages |-> ps] : ps \in BSeq(PageValues, MaxPageList)}
      [] OTHER ->
            {[pagesPerFile |-> k] : k \in 1..(MaxPages + 1)}

\* the characters a user types into an option field
TextChars == {"0", "1", "2", "-", ",", " ", "a"}

TextRanges1 == <<"1", "-", "3", ",", " ", "5", ",", " ", "7", "-", "9">>
TextRanges2 == <<"3", "-", "1", ",", " ", "a", "b", "c", ",", " ", "4">>
TextPages1 == <<"3", ",", "1", ",", "1", ",", "5">>

FieldTexts == BSeq(TextChars, MaxTextLen) \cup {TextRanges1, TextRanges2, TextPages1}

-----------------------------------------------------------------------------
(* Spec: a loaded document whose processor is given any plan *)

InitApp(pdfs, names) ==
    /\ currentPDF \in pdfs
    /\ currentFileName \in names
    /\ splitResults = <<>>
    /\ uiError = ""
    /\ loadingOverlay = FALSE
    /\ resultsShown = FALSE
    /\ calls = [c \in CallIds |-> IdleFrame]
    /\ nextUrl = 0
    /\ docsCreated = 0
    /\ formRead = Null
    /\ uploads = [u \in UploadIds |-> IdleUpload]
    /\ previewShown = TRUE
    /\ revokedUrls = {}
    /\ env = [PDFLib |-> TRUE, pdfjsLib |-> TRUE, pdfJsAvailable |-> TRUE]
    /\ downloadManager = NewDownloadManager
    /\ dmEnv = IdleDmEnv

Init == InitApp({LoadedPDF(n) : n \in 0..MaxPages}, {NameXPdf, NameReportPDF})

\* pdfProcessor.splitPDF(currentPDF, mode, options, currentFileName) with any mode and plan
DirectSplit(c) ==
    /\ calls[c].pc = "idle"
    /\ \E mode \in SplitModes \cup {UnknownMode} : \E options \in PlansOf(mode) :
          SplitPDF(c, "direct", currentPDF, mode, options, currentFileName)
    /\ UNCHANGED <<currentPDF, currentFileName, splitResults, uiError, loadingOverlay,
                   resultsShown, nextUrl, docsCreated, formRead, uploadVars, dmVars>>

Engine(c) ==
    \/ SplitByPagesIter(c)
    \/ SplitByPagesReturn(c)
    \/ SplitByRangesIter(c)
    \/ SplitByRangesReturn(c)
    \/ ExtractPagesEmit(c)

Next == DirectSplit(1) \/ Engine(1)

Spec == Init /\ [][Next]_vars

-----------------------------------------------------------------------------
(* SpecParse: one split request typed into the form of a loaded document *)

InitParse == InitApp({LoadedPDF(n) : n \in 0..MaxPages} \cup {LoadedPDF(5)}, {NameXPdf})

\* the user selects a mode, types a text into its field and clicks the split button
HandleSplit(c) ==
    /\ calls[c].pc = "idle"
    /\ formRead = Null
    /\ \E splitMode \in SplitModes : \E value \in FieldTexts :
          HandleSplitOn(c, splitMode, value)

NextParse == HandleSplit(1) \/ Engine(1) \/ HandleSplitResume(1) \/ HandleSplitCatch(1)

SpecParse == InitParse /\ [][NextParse]_vars

-----------------------------------------------------------------------------
(* Properties of the split engine, checked under Spec *)

\* ceil(n / k) for k >= 1
CeilDiv(n, k) == (n + k - 1) \div k

\* the groups of a call, concatenated in result order
RECURSIVE Flatten(_)
Flatten(groups) ==
    IF groups = <<>> THEN <<>> ELSE Head(groups) \o Flatten(Tail(groups))

\* 0, 1, ..., n - 1
FirstIndices(n) == [j \in 1..n |-> j - 1]

\* C1: a finished splitByPages call on an N-page document with pagesPerFile = k >= 1
\* has returned exactly ceil(N / k) results, one per group copied, and the page
\* indices copied, concatenated in result order, are exactly 0, 1, ..., N - 1.
C1_PagesPartition ==
    \A c \in CallIds :
        LET f == calls[c]
        IN  (f.pc = "done" /\ f.mode = "pages") =>
                /\ Len(f.results) = CeilDiv(getPageCount(f.pdf), f.options.pagesPerFile)
                /\ Len(f.groups) = Len(f.results)
                /\ Flatten(f.groups) = FirstIndices(getPageCount(f.pdf))

\* a 3-page document split 2 pages per file: two files, the last one shorter
C1_Witness ==
    \E c \in CallIds :
        /\ calls[c].pc = "done"
        /\ calls[c].mode = "pages"
        /\ getPageCount(calls[c].pdf) = 3
        /\ calls[c].options.pagesPerFile = 2
        /\ calls[c].groups = <<<<0, 1>>, <<2>>>>

\* the range lies inside an N-page document: 1 <= start <= end <= N
RangeInside(range, totalPages) ==
    1 <= range.start /\ range.start <= range.end /\ range.end <= totalPages

\* C2: the pass of splitByRanges over a range with 1 <= start <= end <= N adds
\* exactly one result, whose group is the indices start-1, start, ..., end-1 in
\* ascending order (end - start + 1 pages).
C2_RangeGroup ==
    [][\A c \in CallIds :
          LET f == calls[c]
              range == f.options.ranges[f.i + 1]
          IN  (/\ f.pc = "range"
               /\ f.i < Len(f.options.ranges)
               /\ calls'[c] # f
               /\ RangeInside(range, getPageCount(f.pdf)))
              => /\ calls'[c].pc = "range"
                 /\ calls'[c].i = f.i + 1
                 /\ Len(calls'[c].results) = Len(f.results) + 1
                 /\ calls'[c].groups =
                        Append(f.groups,
                               [j \in 1..(range.end - range.start + 1) |-> range.start - 2 + j])
                 /\ Len(calls'[c].groups[Len(calls'[c].groups)]) = range.end - range.start + 1
      ]_vars

\* range 2-3 of a 3-page document has produced the group 1, 2
C2_Witness ==
    \E c \in CallIds :
        /\ calls[c].pc = "done"
        /\ calls[c].mode = "range"
        /\ getPageCount(calls[c].pdf) = 3
        /\ calls[c].options.ranges = <<[start |-> 2, end |-> 3]>>
        /\ calls[c].groups = <<<<1, 2>>>>

\* every page of the list lies outside [1, N]
AllOutside(pages, totalPages) ==
    \A j \in 1..Len(pages) : pages[j] < 1 \/ pages[j] > totalPages

\* C4: an extractPages call whose pages all lie outside [1, N] fails with the
\* no-valid-pages error: it returns no result, and no document and no download URL
\* has been created for it.
C4_NoValidPages ==
    \A c \in CallIds :
        LET f == calls[c]
        IN  (f.mode = "extract" /\ AllOutside(f.options.pages, getPageCount(f.pdf))) =>
                /\ f.pc = "failed"
                /\ f.error = ErrNoValidPages
                /\ f.results = <<>>
                /\ f.groups = <<>>
                /\ docsCreated = 0
                /\ nextUrl = 0

\* pages 0 and 3 asked of a 2-page document: the call has failed
C4_Witness ==
    \E c \in CallIds :
        /\ calls[c].mode = "extract"
        /\ getPageCount(calls[c].pdf) = 2
        /\ calls[c].options.pages = <<0, 3>>
        /\ calls[c].pc = "failed"
        /\ calls[c].error = ErrNoValidPages

\* the range lies wholly after the last page or wholly before the first
RangeOutside(range, totalPages) == range.start > totalPages \/ range.end < 1

\* number of the first n ranges that do not lie wholly outside the document
InsideCount(ranges, n, totalPages) ==
    Cardinality({j \in 1..n : ~RangeOutside(ranges[j], totalPages)})

\* C5: in splitByRanges a range with start > N or end < 1 emits nothing (the results
\* never outnumber the other ranges passed so far), and a plan made only of such
\* ranges, on a 0-page document too, never fails: each pass can be taken until the
\* call is done, and it is done with an empty result list.
C5_OutsideRangesDropped ==
    \A c \in CallIds :
        LET f == calls[c]
            totalPages == getPageCount(f.pdf)
        IN  f.mode = "range" =>
                /\ Len(f.results) <= InsideCount(f.options.ranges, f.i, totalPages)
                /\ (\A j \in 1..Len(f.options.ranges) :
                        RangeOutside(f.options.ranges[j], totalPages))
                   => /\ f.pc \in {"range", "done"}
                      /\ f.results = <<>>
                      /\ f.groups = <<>>
                      /\ docsCreated = 0
                      /\ (f.pc = "range" =>
                            ENABLED (SplitByRangesIter(c) \/ SplitByRangesReturn(c)))

\* the plan 3-3, 2-0 on a 2-page document is done, with no result
C5_Witness ==
    \E c \in CallIds :
        /\ calls[c].pc = "done"
        /\ calls[c].mode = "range"
        /\ getPageCount(calls[c].pdf) = 2
        /\ calls[c].options.ranges = <<[start |-> 3, end |-> 3], [start |-> 2, end |-> 0]>>
        /\ calls[c].results = <<>>

-----------------------------------------------------------------------------
(* SpecName: documents of many names split by page count *)

StemChars == {"x", "."}

\* endings that are, or nearly are, the extension
ExtForms ==
    {<<>>, <<".", "p", "d", "f">>, <<".", "P", "D", "F">>, <<".", "P", "d", "f">>,
     <<"p", "d", "f">>, <<".", "p", "d">>, <<".", "p", "d", "f", "x">>}

\* names of uploaded files: a stem followed by two endings
NameInputs ==
    ({a \o b \o e : a \in BSeq(StemChars, MaxStemLen), b \in ExtForms, e \in ExtForms}
        \cup {NameXPdf, NameReportPDF}) \ {<<>>}

InitName == InitApp({LoadedPDF(n) : n \in 1..MaxPages}, NameInputs)

\* pdfProcessor.splitPDF(currentPDF, 'pages', {pagesPerFile}, currentFileName)
DirectSplitByPages(c) ==
    /\ calls[c].pc = "idle"
    /\ \E options \in PlansOf("pages") :
          SplitPDF(c, "direct", currentPDF, "pages", options, currentFileName)
    /\ UNCHANGED <<currentPDF, currentFileName, splitResults, uiError, loadingOverlay,
                   resultsShown, nextUrl, docsCreated, formRead, uploadVars, dmVars>>

NextName == DirectSplitByPages(1) \/ SplitByPagesIter(1) \/ SplitByPagesReturn(1)

SpecName == InitName /\ [][NextName]_vars

-----------------------------------------------------------------------------
(* Properties of the extract mode and of the parsers, checked under SpecParse *)

\* the members of a finite set of integers, in ascending order
SetToAscSeq(S) ==
    CHOOSE s \in [1..Cardinality(S) -> S] :
        \A j \in 1..(Cardinality(S) - 1) : s[j] < s[j + 1]

\* the elements of a sequence
Range(s) == {s[j] : j \in 1..Len(s)}

\* C3: an extract call whose page list has a page in [1, N] produces exactly one
\* result, and the indices copied into it are the distinct in-bound pages minus
\* one, in ascending order, whatever the order and the duplicates of the list.
C3_ExtractDistinctAscending ==
    \A c \in CallIds :
        LET f == calls[c]
            inBound == IF f.mode = "extract"
                       THEN Range(f.options.pages) \cap (1..getPageCount(f.pdf))
                       ELSE {}
        IN  (f.mode = "extract" /\ inBound # {}) =>
                /\ f.pc \in {"extract", "done"}
                /\ f.pc = "done" =>
                      /\ Len(f.results) = 1
                      /\ f.groups = <<SetToAscSeq({p - 1 : p \in inBound})>>

\* the text is a decimal integer and nothing else
IsInteger(s) == s # <<>> /\ \A j \in 1..Len(s) : IsDigit(s[j])

\* the range a segment stands for when read strictly: 'a-b' with 1 <= a <= b, or a
\* bare integer n >= 1; every other segment stands for nothing
StrictRangeOfPart(part) ==
    LET trimmed == Trim(part)
        pieces == Split(trimmed, "-")
    IN  IF Len(pieces) = 2 /\ IsInteger(Trim(pieces[1])) /\ IsInteger(Trim(pieces[2]))
        THEN LET a == DigitsValue(Trim(pieces[1]))
                 b == DigitsValue(Trim(pieces[2]))
             IN  IF 1 <= a /\ a <= b THEN <<[start |-> a, end |-> b]>> ELSE <<>>
        ELSE IF IsInteger(trimmed) /\ DigitsValue(trimmed) >= 1
        THEN <<[start |-> DigitsValue(trimmed), end |-> DigitsValue(trimmed)]>>
        ELSE <<>>

RECURSIVE StrictRangesOfParts(_)
StrictRangesOfParts(parts) ==
    IF parts = <<>> THEN <<>>
    ELSE StrictRangeOfPart(Head(parts)) \o StrictRangesOfParts(Tail(parts))

\* C6: the ranges parsePageRanges returns are, in input order, {a, b} for each
\* segment 'a-b' with 1 <= a <= b and {n, n} for each bare positive integer n;
\* every other segment contributes nothing.
C6_ParseRangesStrict ==
    (formRead # Null /\ formRead.splitMode = "range" /\ formRead.splitOptions # Null) =>
        formRead.splitOptions.ranges = StrictRangesOfParts(Split(formRead.value, ","))

\* C7: a range text or page-list text with no usable entry is refused by the parser:
\* no plan with an empty ranges list or an empty page list is returned.
C7_NoEmptyPlan ==
    formRead # Null => formRead.splitOptions \notin {[ranges |-> <<>>], [pages |-> <<>>]}

\* C8: the list parsePageNumbers returns holds each positive page number of the
\* text exactly once, in ascending order.
C8_PageListDistinctAscending ==
    (formRead # Null /\ formRead.splitMode = "extract" /\ formRead.splitOptions # Null) =>
        LET pages == formRead.splitOptions.pages
        IN  /\ Range(pages) = Range(PositiveNumbers(Split(formRead.value, ",")))
            /\ \A j \in 1..(Len(pages) - 1) : pages[j] < pages[j + 1]

-----------------------------------------------------------------------------
(* Properties of the generated filenames, checked under SpecName *)

LowerCase(ch) ==
    CASE ch = "P" -> "p" [] ch = "D" -> "d" [] ch = "F" -> "f" [] OTHER -> ch

\* the name with one trailing ".pdf" removed, whatever its case
BaseName(name) ==
    IF /\ Len(name) >= 4
       /\ [j \in 1..4 |-> LowerCase(name[Len(name) - 4 + j])] = <<".", "p", "d", "f">>
    THEN SubSeq(name, 1, Len(name) - 4)
    ELSE name

\* the suffix 'pages_a-b' of a file holding the non-empty group of indices
SuffixOfGroup(group) ==
    <<"p", "a", "g", "e", "s", "_">> \o IntStr(group[1] + 1) \o <<"-">>
        \o IntStr(group[Len(group)] + 1)

\* C9: every generated filename is base + '_' + suffix + '.pdf', base being the
\* original name with exactly one trailing '.pdf' removed, matched whatever the case;
\* 'Report.PDF' with suffix 'pages_1-3' gives 'Report_pages_1-3.pdf'.
C9_GeneratedFilename ==
    \A c \in CallIds :
        LET f == calls[c]
        IN  \A j \in 1..Len(f.results) :
                /\ f.results[j].filename =
                       BaseName(f.originalFilename) \o <<"_">> \o SuffixOfGroup(f.groups[j])
                           \o <<".", "p", "d", "f">>
                /\ (f.originalFilename = NameReportPDF /\ f.groups[j] = <<0, 1, 2>>) =>
                       f.results[j].filename =
                           <<"R", "e", "p", "o", "r", "t", "_", "p", "a", "g", "e", "s", "_",
                             "1", "-", "3", ".", "p", "d", "f">>

\* 'x.pdf.PDF' has given a file named 'x.pdf_pages_1-1.pdf'
C9_Witness ==
    \E c \in CallIds :
        /\ calls[c].originalFilename = <<"x", ".", "p", "d", "f", ".", "P", "D", "F">>
        /\ Len(calls[c].results) >= 1
        /\ calls[c].results[1].filename =
               <<"x", ".", "p", "d", "f", "_", "p", "a", "g", "e", "s", "_", "1", "-", "1",
                 ".", "p", "d", "f">>

\* C10: the base name of every generated filename is non-empty: the filename is
\* longer than '_' + suffix + '.pdf'.
C10_BaseNeverEmpty ==
    \A c \in CallIds :
        LET f == calls[c]
        IN  \A j \in 1..Len(f.results) :
                Len(f.results[j].filename) > 1 + Len(SuffixOfGroup(f.groups[j])) + 4

-----------------------------------------------------------------------------
(* The range each file of splitByPages holds and names, checked under Spec *)

\* a, a + 1, ..., b as 0-based page indices: a - 1, ..., b - 1
IndicesOfPages(a, b) == [j \in 1..(b - a + 1) |-> a - 2 + j]

\* the text "a-b" of a 1-based inclusive page range
RangeText(a, b) == IntStr(a) \o <<"-">> \o IntStr(b)

\* C11: in splitByPages the k-th result (k counted from 0) holds the 1-based pages
\* k*pagesPerFile + 1 through min((k+1)*pagesPerFile, N), and both its filename
\* suffix 'pages_a-b' and its pageInfo 'Pages a-b' name exactly that inclusive range.
C11_PagesRangeNamed ==
    \A c \in CallIds :
        LET f == calls[c]
            N == getPageCount(f.pdf)
        IN  f.mode = "pages" =>
                \A j \in 1..Len(f.results) :
                    LET k == j - 1
                        a == k * f.options.pagesPerFile + 1
                        b == Min((k + 1) * f.options.pagesPerFile, N)
                    IN  /\ f.groups[j] = IndicesOfPages(a, b)
                        /\ f.results[j].filename =
                               StripPdfExt(f.originalFilename)
                                   \o <<"_", "p", "a", "g", "e", "s", "_">> \o RangeText(a, b)
                                   \o <<".", "p", "d", "f">>
                        /\ f.results[j].pageInfo =
                               <<"P", "a", "g", "e", "s", " ">> \o RangeText(a, b)

\* x.pdf of 3 pages split 2 per file: the second file holds page 3 alone and is
\* named x_pages_3-3.pdf, 'Pages 3-3'
C11_Witness ==
    \E c \in CallIds :
        /\ calls[c].pc = "done"
        /\ calls[c].mode = "pages"
        /\ calls[c].options.pagesPerFile = 2
        /\ Len(calls[c].results) = 2
        /\ calls[c].groups[2] = <<2>>
        /\ calls[c].results[2].filename =
               <<"x", "_", "p", "a", "g", "e", "s", "_", "3", "-", "3", ".", "p", "d", "f">>
        /\ calls[c].results[2].pageInfo = <<"P", "a", "g", "e", "s", " ", "3", "-", "3">>

-----------------------------------------------------------------------------
(* The groups splitByRanges emits for any list of ranges, checked under Spec *)

\* one group for each range with max(1, start) <= min(end, N), in input order
RECURSIVE ExpectedRangeGroups(_, _)
ExpectedRangeGroups(ranges, N) ==
    IF ranges = <<>> THEN <<>>
    ELSE LET a == Max(1, Head(ranges).start)
             b == Min(Head(ranges).end, N)
         IN  (IF a <= b THEN <<IndicesOfPages(a, b)>> ELSE <<>>)
             \o ExpectedRangeGroups(Tail(ranges), N)

\* C12: splitByRanges emits, in input order, exactly one group for each range with
\* max(1, start) <= min(end, N), that group being the indices max(1, start) - 1
\* through min(end, N) - 1, and nothing for every other range; dropped ranges do not
\* stop the valid ones, overlapping ranges each give their own result, and the
\* number of results never exceeds the number of ranges.
C12_RangesGroups ==
    \A c \in CallIds :
        LET f == calls[c]
        IN  (f.mode = "range" /\ f.pc \in {"range", "done"}) =>
                /\ f.groups = ExpectedRangeGroups(SubSeq(f.options.ranges, 1, f.i),
                                                  getPageCount(f.pdf))
                /\ Len(f.results) = Len(f.groups)
                /\ Len(f.results) <= Len(f.options.ranges)
                /\ f.pc = "done" => f.i = Len(f.options.ranges)

\* ranges 3-1 and 2-4 on a 3-page document: the first is dropped, the second is
\* clamped to pages 2-3 and gives the only result
C12_Witness ==
    \E c \in CallIds :
        /\ calls[c].pc = "done"
        /\ calls[c].mode = "range"
        /\ getPageCount(calls[c].pdf) = 3
        /\ calls[c].options.ranges = <<[start |-> 3, end |-> 1], [start |-> 2, end |-> 4]>>
        /\ calls[c].groups = <<<<1, 2>>>>
        /\ Len(calls[c].results) = 1

\* ranges 1-2 and 2-3 overlap on page 2 and each gave its own result
C12_WitnessOverlap ==
    \E c \in CallIds :
        /\ calls[c].pc = "done"
        /\ calls[c].mode = "range"
        /\ calls[c].options.ranges = <<[start |-> 1, end |-> 2], [start |-> 2, end |-> 3]>>
        /\ calls[c].groups = <<<<0, 1>>, <<1, 2>>>>

-----------------------------------------------------------------------------
(* SpecApp: a loaded document, split requests typed into the form, copies that  *)
(* may fail, and resets                                                         *)

MaxDocs == 3         \* no split request starts once this many documents were created

\* what the form holds when the split button is clicked: the checked mode and the
\* text of the field that mode reads
AppForms ==
    {[splitMode |-> "pages", value |-> <<"1">>],
     [splitMode |-> "pages", value |-> <<"2">>],
     [splitMode |-> "pages", value |-> <<"0">>],
     [splitMode |-> "range", value |-> <<"1", "-", "2">>],
     [splitMode |-> "range", value |-> <<"2", "-", "9", ",", "1">>],
     [splitMode |-> "range", value |-> <<"a">>],
     [splitMode |-> "extract", value |-> <<"2", ",", "1">>],
     [splitMode |-> "extract", value |-> <<"9">>],
     [splitMode |-> UnknownMode, value |-> <<>>]}

InitLoaded == InitApp({LoadedPDF(n) : n \in 1..MaxPages}, {NameXPdf})

\* the split button is clicked
HandleSplitApp(c) ==
    /\ calls[c].pc = "idle"
    /\ docsCreated < MaxDocs
    /\ \E form \in AppForms : HandleSplitOn(c, form.splitMode, form.value)

NextApp ==
    \/ HandleSplitApp(1)
    \/ Engine(1)
    \/ CopyOrSaveFails(1)
    \/ HandleSplitResume(1)
    \/ HandleSplitCatch(1)
    \/ resetApp

SpecApp == InitLoaded /\ [][NextApp]_vars

-----------------------------------------------------------------------------
(* Properties of split requests, checked under SpecApp and SpecParse *)

\* C13: for every split-mode tag other than 'pages', 'range' and 'extract', a
\* split request on a loaded document fails fast with an error that is reported
\* (the message is shown, or the engine call has failed and its error goes to the
\* catch block); the request is never silently ignored, and no result is produced.
C13_UnknownModeReported ==
    [][\A c \in CallIds :
          (currentPDF # Null /\ HandleSplitOn(c, UnknownMode, <<>>)) =>
              /\ uiError' # "" \/ calls'[c].pc = "failed"
              /\ splitResults' = splitResults
      ]_vars

\* the plan passes the validation the parser boundary owes the engine
ValidatedPlan(mode, options, totalPages) ==
    CASE mode = "pages" -> options.pagesPerFile \in Int /\ options.pagesPerFile >= 1
      [] mode = "range" ->
            /\ options.ranges # <<>>
            /\ \A j \in 1..Len(options.ranges) :
                   options.ranges[j].start <= options.ranges[j].end
      [] mode = "extract" -> ValidPages(options.pages, totalPages) # <<>>
      [] OTHER -> FALSE

\* C14: in every run of the application splitPDF is only ever invoked with a
\* validated plan: pagesPerFile an integer >= 1, a non-empty ranges list with
\* start <= end in each range, a page list with at least one resolvable page; an
\* invalid plan is rejected before the engine is called, not inside it.
C14_OnlyValidatedPlans ==
    \A c \in CallIds :
        calls[c].caller = "handleSplit" =>
            ValidatedPlan(calls[c].mode, calls[c].options, getPageCount(calls[c].pdf))

-----------------------------------------------------------------------------
(* SpecConc: splitPDF calls on one loaded document, one after another or        *)
(* interleaved at their awaits                                                  *)

ConcPlans ==
    {[mode |-> "pages", options |-> [pagesPerFile |-> 1]],
     [mode |-> "pages", options |-> [pagesPerFile |-> 2]],
     [mode |-> "range", options |-> [ranges |-> <<[start |-> 1, end |-> 2]>>]],
     [mode |-> "range",
      options |-> [ranges |-> <<[start |-> 2, end |-> MaxPages + 1], [start |-> 2, end |-> 1],
                                [start |-> 1, end |-> 1]>>]],
     [mode |-> "extract", options |-> [pages |-> <<2, 1>>]],
     [mode |-> "extract", options |-> [pages |-> <<MaxPages + 1>>]]}

InitConc == InitApp({LoadedPDF(n) : n \in 2..MaxPages}, {NameXPdf})

\* a caller invokes splitPDF on the loaded document
DirectSplitConc(c) ==
    /\ calls[c].pc = "idle"
    /\ docsCreated < MaxDocs
    /\ \E plan \in ConcPlans :
          SplitPDF(c, "direct", currentPDF, plan.mode, plan.options, currentFileName)
    /\ UNCHANGED <<currentPDF, currentFileName, splitResults, uiError, loadingOverlay,
                   resultsShown, nextUrl, docsCreated, formRead, uploadVars, dmVars>>

\* the promise of the call settles and its caller takes the results or the error
SplitSettled(c) ==
    /\ calls[c].pc \in {"done", "failed"}
    /\ calls[c].caller = "direct"
    /\ calls' = [calls EXCEPT ![c] = IdleFrame]
    /\ UNCHANGED <<currentPDF, currentFileName, splitResults, uiError, loadingOverlay,
                   resultsShown, nextUrl, docsCreated, formRead, uploadVars, dmVars>>

NextConc == \E c \in CallIds : DirectSplitConc(c) \/ Engine(c) \/ SplitSettled(c)

SpecConc == InitConc /\ [][NextConc]_vars

\* the groups a call returns when it runs alone (established by C1, C11, C12, C4)
AloneGroups(mode, options, N) ==
    CASE mode = "pages" ->
            [j \in 1..CeilDiv(N, options.pagesPerFile) |->
                IndicesOfPages((j - 1) * options.pagesPerFile + 1,
                               Min(j * options.pagesPerFile, N))]
      [] mode = "range" -> ExpectedRangeGroups(options.ranges, N)
      [] mode = "extract" -> <<PagesToIndices(ValidPages(options.pages, N))>>

\* the suffixes of the ranges that give a group, in input order
RECURSIVE KeptRangeSuffixes(_, _)
KeptRangeSuffixes(ranges, N) ==
    IF ranges = <<>> THEN <<>>
    ELSE (IF Max(1, Head(ranges).start) <= Min(Head(ranges).end, N)
          THEN <<<<"r", "a", "n", "g", "e", "_">>
                     \o RangeText(Head(ranges).start, Head(ranges).end)>>
          ELSE <<>>)
         \o KeptRangeSuffixes(Tail(ranges), N)

\* the filename suffixes a call gives its files when it runs alone
AloneSuffixes(mode, options, N) ==
    CASE mode = "pages" ->
            [j \in 1..CeilDiv(N, options.pagesPerFile) |->
                <<"p", "a", "g", "e", "s", "_">>
                    \o RangeText((j - 1) * options.pagesPerFile + 1,
                                 Min(j * options.pagesPerFile, N))]
      [] mode = "range" -> KeptRangeSuffixes(options.ranges, N)
      [] mode = "extract" ->
            <<<<"e", "x", "t", "r", "a", "c", "t", "e", "d", "_", "p", "a", "g", "e", "s", "_">>
                  \o Join(ValidPages(options.pages, N), <<"-">>)>>

\* the frame of a finished call holds the groups and filenames of a call run alone
ReturnsAsAlone(f) ==
    LET N == getPageCount(f.pdf)
        suffixes == AloneSuffixes(f.mode, f.options, N)
    IN  /\ f.groups = AloneGroups(f.mode, f.options, N)
        /\ Len(f.results) = Len(suffixes)
        /\ \A j \in 1..Len(suffixes) :
               f.results[j].filename =
                   BaseName(f.originalFilename) \o <<"_">> \o suffixes[j]
                       \o <<".", "p", "d", "f">>

\* C15: no split operation changes the loaded document: through any number of
\* splitPDF calls on it, one after another or interleaved at their awaits, the
\* document (page count and page sequence) stays what it was after loading, every
\* call works on that document, and each finished call returns the groups and
\* filenames it would return when run alone.
C15_SplitsLeaveDocument ==
    [][/\ currentPDF' = currentPDF
       /\ \A c \in CallIds :
              /\ calls'[c].pc # "idle" => calls'[c].pdf = currentPDF
              /\ calls'[c].pc = "done" => ReturnsAsAlone(calls'[c])
      ]_vars

\* two calls on one 3-page document are each past their first file: one splits page
\* by page, the other copies the ranges 2-4, 2-1, 1-1
C15_Witness ==
    /\ calls[1].pc = "pages" /\ calls[1].options.pagesPerFile = 1 /\ calls[1].i = 2
    /\ calls[2].pc = "done" /\ calls[2].mode = "range"
    /\ calls[2].groups = <<<<1, 2>>, <<0>>>>
    /\ calls[2].results[1].url = 2
    /\ calls[2].results[2].url = 4

-----------------------------------------------------------------------------
(* Failing copies and resets, checked under SpecApp *)

\* C16: when copying or serializing any group fails during splitPDF, the whole call
\* fails: the call never finishes with a list of the groups written so far, and the
\* step in which handleSplit takes the failure leaves splitResults as it was before
\* and does not show the results section.
C16_FailedSplitAllOrNothing ==
    [][\A c \in CallIds :
          (calls[c].pc = "failed" /\ calls[c].error = ErrCopy) =>
              /\ calls'[c].pc \in {"failed", "idle"}
              /\ (calls'[c] # calls[c] /\ calls[c].caller = "handleSplit") =>
                     /\ splitResults' = splitResults
                     /\ resultsShown' = resultsShown
                     /\ uiError' = ErrSplitPrefix \o ErrCopy
      ]_vars

\* a request has failed after its call had written a file (a URL newer than every
\* URL of splitResults exists) and handleSplit has reported it; the results of the
\* request before it are still the stored ones
C16_Witness ==
    /\ calls[1].pc = "idle"
    /\ uiError = ErrSplitPrefix \o ErrCopy
    /\ splitResults # <<>>
    /\ revokedUrls = {}
    /\ \A j \in 1..Len(splitResults) : splitResults[j].url < nextUrl

-----------------------------------------------------------------------------
(* SpecUpload: the application from its construction, files uploaded one after  *)
(* another                                                                      *)

NameAPdf == <<"a", ".", "p", "d", "f">>
NameBPDF == <<"b", ".", "P", "D", "F">>
NameCPdf == <<"c", ".", "p", "d", "f">>

FileA == [name |-> NameAPdf, type |-> "application/pdf", size |-> 2 * MinFileSize,
          head |-> PdfMagic, tail |-> <<" ">> \o EofMarker, pages |-> 2, content |-> "A"]
FileB == [name |-> NameBPDF, type |-> "", size |-> maxFileSize, head |-> PdfMagic,
          tail |-> EofMarker \o <<" ">>,
          pages |-> MaxPages, content |-> "B"]
FileTiny == [FileA EXCEPT !.name = NameCPdf, !.size = MinFileSize - 1, !.content = "C"]
FileBadHeader == [FileA EXCEPT !.name = NameCPdf, !.head = <<"<", "h", "t", "m", "l">>,
                               !.content = "C"]
FileCorrupt == [FileA EXCEPT !.name = NameCPdf, !.pages = -1, !.content = "C"]

AppFiles == {FileA, FileB, FileTiny, FileBadHeader, FileCorrupt}

\* the page with both libraries, without PDF.js, with the flag set but PDF.js
\* missing, and without pdf-lib
AppEnvs ==
    {[PDFLib |-> TRUE, pdfjsLib |-> TRUE, pdfJsAvailable |-> TRUE],
     [PDFLib |-> TRUE, pdfjsLib |-> FALSE, pdfJsAvailable |-> FALSE],
     [PDFLib |-> TRUE, pdfjsLib |-> FALSE, pdfJsAvailable |-> TRUE],
     [PDFLib |-> FALSE, pdfjsLib |-> TRUE, pdfJsAvailable |-> TRUE]}

\* the state the constructor leaves
InitFresh ==
    /\ currentPDF = Null
    /\ currentFileName = <<>>
    /\ splitResults = <<>>
    /\ uiError = ""
    /\ loadingOverlay = FALSE
    /\ resultsShown = FALSE
    /\ calls = [c \in CallIds |-> IdleFrame]
    /\ nextUrl = 0
    /\ docsCreated = 0
    /\ formRead = Null
    /\ uploads = [u \in UploadIds |-> IdleUpload]
    /\ previewShown = FALSE
    /\ revokedUrls = {}
    /\ env \in AppEnvs
    /\ downloadManager = NewDownloadManager
    /\ dmEnv = IdleDmEnv

\* a file is chosen or dropped
HandleFileUpload(u) ==
    /\ uploads[u].pc = "idle"
    /\ \E file \in AppFiles : HandleFileUploadOn(u, file)

NextUpload == HandleFileUpload(1) \/ Upload(1)

SpecUpload == InitFresh /\ [][NextUpload]_vars

\* C17: loadPDF either fully succeeds, returning a document usable for page copy
\* with its full capability, or fails outright by throwing; it never returns a
\* reduced-capability ('simplified') document.
C17_NoSimplifiedDocument ==
    currentPDF # Null => ~currentPDF.isSimplified

\* C18: when handleFileUpload fails at validation, at reading or at loading, the
\* whole upload is aborted and nothing of the failed file stays in the application
\* state: currentPDF and currentFileName are what they were before the upload
\* began, and the preview section is not shown by it.
C18_FailedUploadLeavesNothing ==
    [][\A u \in UploadIds :
          (/\ uploads'[u] # uploads[u]
           /\ uploads'[u].pc = "idle"
           /\ uploads'[u].outcome \in {"invalid", "readFailed", "loadFailed"})
          => /\ currentPDF' = uploads'[u].pdfBefore
             /\ currentFileName' = uploads'[u].nameBefore
             /\ previewShown' = previewShown
      ]_vars

\* C19: the caller releases the download URLs it no longer needs: after resetApp
\* returns, every blob URL held by the split results that existed when resetApp
\* was called has been revoked.
C19_ResetRevokesUrls ==
    [][resetApp => UrlsOf(splitResults) \subseteq revokedUrls']_vars

-----------------------------------------------------------------------------
(* SpecRace: two handleFileUpload calls that overlap at their awaits *)

RaceFiles == {FileA, FileB}

\* the page with both libraries
InitRace == InitFresh /\ env.PDFLib /\ env.pdfjsLib /\ env.pdfJsAvailable

\* a file is chosen or dropped while another upload may still be running
HandleFileUploadRace(u) ==
    /\ uploads[u].pc = "idle"
    /\ uploads[u].outcome = ""
    /\ \E file \in RaceFiles : HandleFileUploadOn(u, file)

NextRace == \E u \in UploadIds : HandleFileUploadRace(u) \/ Upload(u)

SpecRace == InitRace /\ [][NextRace]_vars

\* C20: no shared mutable state is written by more than one in-flight operation:
\* when two handleFileUpload calls overlap at their await points, in every
\* interleaving the final currentPDF and currentFileName belong to the same file.
C20_NameAndDocumentOfOneFile ==
    (\A u \in UploadIds : uploads[u].pc = "idle" /\ uploads[u].outcome = "shown") =>
        \E file \in RaceFiles :
            currentFileName = file.name /\ currentPDF.buffer = file.content

-----------------------------------------------------------------------------
(* PDFProcessorSimple: its split methods, and SpecEquiv, in which a plan is     *)
(* given to PDFProcessor (frame 1) and then to PDFProcessorSimple (frame 2).    *)
(* Its Chinese texts are written in transliteration.                            *)

SimpleErrUnsupportedMode == "bu zhichi de fenge moshi"
SimpleErrNoValidPages == "meiyou youxiao de yemian keyi tiqu"

\* a filter that keeps every page of the list
SimpleValidPagesUnfiltered(pages, totalPages) == pages

\* pages.filter(p => p >= 1 && p <= totalPages)
RECURSIVE SimpleValidPages(_, _)
SimpleValidPages(pages, totalPages) ==
    IF pages = <<>> THEN <<>>
    ELSE (IF Head(pages) >= 1 /\ Head(pages) <= totalPages THEN <<Head(pages)>> ELSE <<>>)
         \o SimpleValidPages(Tail(pages), totalPages)

\* the pageInfo texts: "di a-b ye" and "di p, q, r ye"
SimplePageInfoRange(a, b) ==
    <<"d", "i", " ">> \o IntStr(a) \o <<"-">> \o IntStr(b) \o <<" ", "y", "e">>

SimplePageInfoList(validPages) ==
    <<"d", "i", " ">> \o Join(validPages, <<",", " ">>) \o <<" ", "y", "e">>

\* PDFProcessorSimple.splitPDF: the dispatch and the part of the chosen method
\* that runs before its first await
SimpleSplitPDF(c, caller, pdf, mode, options, originalFilename) ==
    /\ calls[c].pc = "idle"
    /\ LET f == [IdleFrame EXCEPT !.caller = caller, !.pdf = pdf, !.mode = mode,
                                  !.options = options,
                                  !.originalFilename = originalFilename]
       IN  calls' = [calls EXCEPT ![c] =
              CASE mode = "pages" -> [f EXCEPT !.pc = "pages"]
                [] mode = "range" -> [f EXCEPT !.pc = "range"]
                [] mode = "extract" ->
                      IF SimpleValidPages(options.pages, getPageCount(pdf)) = <<>>
                      THEN [f EXCEPT !.pc = "failed", !.error = SimpleErrNoValidPages]
                      ELSE [f EXCEPT !.pc = "extract"]
                [] OTHER -> [f EXCEPT !.pc = "failed", !.error = SimpleErrUnsupportedMode]]

\* PDFProcessorSimple.splitByPages: one pass of the loop body
SimpleSplitByPagesIter(c) ==
    LET f == calls[c]
        pagesPerFile == f.options.pagesPerFile
        totalPages == getPageCount(f.pdf)
        endPage == Min(f.i + pagesPerFile - 1, totalPages - 1)
        startPage == f.i
    IN  /\ f.pc = "pages"
        /\ f.i < totalPages
        /\ EmitFile(c, PageIndexRange(startPage, endPage),
                    <<"p", "a", "g", "e", "s", "_">> \o IntStr(startPage + 1) \o <<"-">>
                        \o IntStr(endPage + 1),
                    SimplePageInfoRange(startPage + 1, endPage + 1), "pages",
                    f.i + pagesPerFile)
        /\ UNCHANGED <<currentPDF, currentFileName, splitResults, uiError, loadingOverlay,
                       resultsShown, formRead, uploadVars, dmVars>>

\* PDFProcessorSimple.splitByPages: the loop ends and the results are returned
SimpleSplitByPagesReturn(c) ==
    /\ calls[c].pc = "pages"
    /\ ~(calls[c].i < getPageCount(calls[c].pdf))
    /\ calls' = [calls EXCEPT ![c].pc = "done"]
    /\ UNCHANGED <<currentPDF, currentFileName, splitResults, uiError, loadingOverlay,
                   resultsShown, nextUrl, docsCreated, formRead, uploadVars, dmVars>>

\* PDFProcessorSimple.splitByRanges: one pass of the loop body
SimpleSplitByRangesIter(c) ==
    LET f == calls[c]
        ranges == f.options.ranges
        totalPages == getPageCount(f.pdf)
        range == ranges[f.i + 1]
        startPage == Max(1, range.start) - 1
        endPage == Min(range.end, totalPages) - 1
    IN  /\ f.pc = "range"
        /\ f.i < Len(ranges)
        /\ IF startPage > endPage \/ startPage < 0 \/ endPage >= totalPages
           THEN /\ calls' = [calls EXCEPT ![c].i = f.i + 1]
                /\ UNCHANGED <<nextUrl, docsCreated>>
           ELSE EmitFile(c, PageIndexRange(startPage, endPage),
                         <<"r", "a", "n", "g", "e", "_">> \o IntStr(range.start) \o <<"-">>
                             \o IntStr(range.end),
                         SimplePageInfoRange(range.start, range.end), "range", f.i + 1)
        /\ UNCHANGED <<currentPDF, currentFileName, splitResults, uiError, loadingOverlay,
                       resultsShown, formRead, uploadVars, dmVars>>

\* PDFProcessorSimple.splitByRanges: the loop ends and the results are returned
SimpleSplitByRangesReturn(c) ==
    /\ calls[c].pc = "range"
    /\ ~(calls[c].i < Len(calls[c].options.ranges))
    /\ calls' = [calls EXCEPT ![c].pc = "done"]
    /\ UNCHANGED <<currentPDF, currentFileName, splitResults, uiError, loadingOverlay,
                   resultsShown, nextUrl, docsCreated, formRead, uploadVars, dmVars>>

\* PDFProcessorSimple.extractPages after the validity check
SimpleExtractPagesEmit(c) ==
    LET f == calls[c]
        validPages == SimpleValidPages(f.options.pages, getPageCount(f.pdf))
    IN  /\ f.pc = "extract"
        /\ EmitFile(c, [j \in 1..Len(validPages) |-> validPages[j] - 1],
                    <<"e", "x", "t", "r", "a", "c", "t", "e", "d", "_", "p", "a", "g", "e",
                      "s", "_">> \o Join(validPages, <<"-">>),
                    SimplePageInfoList(validPages), "done", 0)
        /\ UNCHANGED <<currentPDF, currentFileName, splitResults, uiError, loadingOverlay,
                       resultsShown, formRead, uploadVars, dmVars>>

SimpleEngine(c) ==
    \/ SimpleSplitByPagesIter(c)
    \/ SimpleSplitByPagesReturn(c)
    \/ SimpleSplitByRangesIter(c)
    \/ SimpleSplitByRangesReturn(c)
    \/ SimpleExtractPagesEmit(c)

\* the plan PDFProcessor has finished with is given to PDFProcessorSimple
SimpleSplitSame(c, other) ==
    /\ calls[c].pc = "idle"
    /\ calls[other].pc \in {"done", "failed"}
    /\ SimpleSplitPDF(c, "direct", calls[other].pdf, calls[other].mode,
                      calls[other].options, calls[other].originalFilename)
    /\ UNCHANGED <<currentPDF, currentFileName, splitResults, uiError, loadingOverlay,
                   resultsShown, nextUrl, docsCreated, formRead, uploadVars, dmVars>>

NextEquiv == DirectSplit(1) \/ Engine(1) \/ SimpleSplitSame(2, 1) \/ SimpleEngine(2)

SpecEquiv == Init /\ [][NextEquiv]_vars

\* the filenames of a list of results
FilenamesOf(results) == [j \in 1..Len(results) |-> results[j].filename]

\* C21: the split contract does not depend on the processor in use: for the same
\* page count, mode, options and original filename, PDFProcessor.splitPDF and
\* PDFProcessorSimple.splitPDF produce the same sequence of page-index groups and
\* the same filenames, and fail on the same inputs.
C21_ProcessorsAgree ==
    (calls[1].pc \in {"done", "failed"} /\ calls[2].pc \in {"done", "failed"}) =>
        /\ calls[2].pc = calls[1].pc
        /\ calls[2].groups = calls[1].groups
        /\ FilenamesOf(calls[2].results) = FilenamesOf(calls[1].results)

\* both processors have split Report.PDF of 3 pages by the ranges 2-4 and 1-1
C21_Witness ==
    /\ calls[1].pc = "done" /\ calls[2].pc = "done"
    /\ calls[2].mode = "range"
    /\ calls[2].originalFilename = NameReportPDF
    /\ calls[2].groups = <<<<1, 2>>, <<0>>>>
    /\ calls[2].results[1].pageInfo = SimplePageInfoRange(2, 4)
    /\ calls[1].results[1].pageInfo = PageInfoRange(2, 4)

\* both processors have refused a page list with no page of the document
C21_WitnessFail ==
    /\ calls[1].pc = "failed" /\ calls[2].pc = "failed"
    /\ calls[2].mode = "extract"
    /\ calls[2].error = SimpleErrNoValidPages

-----------------------------------------------------------------------------
(* Round trip of the written files, checked under Spec *)

\* PDFProcessor.loadPDF on a page with both libraries, given the bytes of a blob:
\* it throws when pdf-lib does, and else returns the loaded document
LoadPDFOfBytes(buffer) ==
    [throws |-> PDFDocumentLoad(buffer).throws,
     pdf |-> [pdfLib |-> PDFDocumentLoad(buffer).pages, pdfJS |-> "pdfViewer",
              buffer |-> buffer, isSimplified |-> FALSE]]

C23_RangeLabelIsContent ==
    \A c \in CallIds :
        LET f == calls[c]
        IN  f.mode = "range" =>
                \A j \in 1..Len(f.results) :
                    LET a == f.groups[j][1] + 1
                        b == f.groups[j][Len(f.groups[j])] + 1
                    IN  /\ f.results[j].filename =
                               BaseName(f.originalFilename)
                                   \o <<"_", "r", "a", "n", "g", "e", "_">> \o RangeText(a, b)
                                   \o <<".", "p", "d", "f">>
                        /\ f.results[j].pageInfo =
                               <<"P", "a", "g", "e", "s", " ">> \o RangeText(a, b)

-----------------------------------------------------------------------------
(* SpecPages: one pages-mode request typed into the form, its awaits resolving  *)

\* the user selects the pages mode, types a text and clicks the split button
HandleSplitPages(c) ==
    /\ calls[c].pc = "idle"
    /\ formRead = Null
    /\ \E value \in FieldTexts : HandleSplitOn(c, "pages", value)

SplitByPages(c) == SplitByPagesIter(c) \/ SplitByPagesReturn(c)

NextPages == HandleSplitPages(1) \/ SplitByPages(1) \/ HandleSplitResume(1)

\* every await of copyPages and save settles and the event loop runs what follows it
SpecPages == InitParse /\ [][NextPages]_vars /\ WF_vars(SplitByPages(1))

\* C24: splitByPages terminates for every page count N >= 0 and every pagesPerFile
\* value that getSplitOptions lets through: the loop index strictly increases on
\* each iteration, at most N iterations run, and the call returns.
C24_SplitByPagesTerminates ==
    /\ [][\A c \in CallIds :
             (calls[c].pc = "pages" /\ calls'[c] # calls[c]) =>
                 \/ calls'[c].pc = "done"
                 \/ /\ calls'[c].pc = "pages"
                    /\ calls'[c].i > calls[c].i
                    /\ Len(calls'[c].results) <= getPageCount(calls[c].pdf)
         ]_vars
    /\ \A c \in CallIds : (calls[c].pc = "pages") ~> (calls[c].pc = "done")

\* the text '1' on a 5-page document: five passes, then the call has returned
C24_Witness ==
    /\ calls[1].pc = "done"
    /\ calls[1].mode = "pages"
    /\ formRead.value = <<"1">>
    /\ calls[1].i = 5
    /\ Len(calls[1].results) = 5

-----------------------------------------------------------------------------
(* The download queue: downloadAll and processQueue calls that overlap.    *)

\* the blob URLs of the results handed to call k
CallUrls(k) == {2 * k - 1, 2 * k}

ResultOfUrl(url) == [url |-> url, filename |-> FileNameOf(url)]

\* the results lists a caller may pass: none, one result, or two
ResultLists(k) ==
    {<<>>}
    \cup {<<ResultOfUrl(a)>> : a \in CallUrls(k)}
    \cup {<<ResultOfUrl(a), ResultOfUrl(b)>> : a, b \in CallUrls(k)}

\* a fresh manager on a page whose split results already hold their blob URLs
InitQueue ==
    /\ currentPDF = Null
    /\ currentFileName = <<>>
    /\ splitResults = <<>>
    /\ uiError = ""
    /\ loadingOverlay = FALSE
    /\ resultsShown = FALSE
    /\ calls = [c \in CallIds |-> IdleFrame]
    /\ nextUrl = 2 * Cardinality(DmCallIds)
    /\ docsCreated = 0
    /\ formRead = Null
    /\ uploads = [u \in UploadIds |-> IdleUpload]
    /\ previewShown = FALSE
    /\ revokedUrls = {}
    /\ env = [PDFLib |-> TRUE, pdfjsLib |-> TRUE, pdfJsAvailable |-> TRUE]
    /\ downloadManager = NewDownloadManager
    /\ dmEnv = IdleDmEnv

NextQueue ==
    \E k \in DmCallIds, throws \in BOOLEAN :
        \/ \E results \in ResultLists(k) : downloadAll(k, results, throws)
        \/ processQueue(k, throws)
        \/ ProcessQueueResume(k, throws)

SpecQueue == InitQueue /\ [][NextQueue]_vars

RECURSIVE ClicksOn(_, _)
\* the link clicks made on the URLs of one set, in the order they were made
ClicksOn(clicks, urls) ==
    IF clicks = <<>> THEN <<>>
    ELSE IF Head(clicks).url \in urls
         THEN <<Head(clicks)>> \o ClicksOn(Tail(clicks), urls)
         ELSE ClicksOn(Tail(clicks), urls)

\* no processQueue loop is waiting between two downloads
NoLoopWaiting == \A k \in DmCallIds : dmEnv.calls[k].pc # "delay"

\* C25: once the queue is at rest, every downloadAll call that was given a
\* non-empty results list and did not throw has caused exactly one link click
\* for each of its results, in list order, also when it was made while an
\* earlier processQueue loop was waiting between two downloads.
C25_EveryResultDownloadedOnce ==
    \A k \in DmCallIds :
        ( /\ NoLoopWaiting
          /\ dmEnv.calls[k].viaDownloadAll
          /\ dmEnv.calls[k].results # <<>>
          /\ dmEnv.calls[k].outcome \in {"ended", "returned"} )
        => ClicksOn(dmEnv.clicks, CallUrls(k)) = dmEnv.calls[k].results

\* call k reaches processQueue in this step, while the manager says a loop is running
CalledWhileBusy(k) ==
    /\ dmEnv.calls[k].pc = "idle"
    /\ dmEnv'.calls[k].pc # "idle"
    /\ dmEnv'.calls[k].outcome # ErrNothingToDownload
    /\ downloadManager.isProcessingQueue

\* call k's loop ends normally in this step
LoopEndsNormally(k) ==
    /\ dmEnv.calls[k].outcome = ""
    /\ dmEnv'.calls[k].outcome = "ended"

\* C26: at most one processQueue loop is active; a call made while
\* isProcessingQueue is true returns without a download; the flag is true
\* exactly while a loop is active, so it is false after a normal end and after
\* an exception; and the queue is empty after a normal end.
C26_OneLoopAtATime ==
    /\ [](Cardinality({k \in DmCallIds : dmEnv.calls[k].pc = "delay"}) <= 1)
    /\ [](downloadManager.isProcessingQueue
            <=> (\E k \in DmCallIds : dmEnv.calls[k].pc = "delay"))
    /\ [][\A k \in DmCallIds :
            CalledWhileBusy(k)
            => /\ dmEnv'.clicks = dmEnv.clicks
               /\ dmEnv'.calls[k].pc = "done"
               /\ dmEnv'.calls[k].outcome = "returned"]_vars
    /\ [][\A k \in DmCallIds :
            LoopEndsNormally(k) => downloadManager'.downloadQueue = <<>>]_vars

\* one loop waits between two downloads while a second call has come and gone
C26_Witness ==
    \E k, j \in DmCallIds :
        /\ dmEnv.calls[k].pc = "delay"
        /\ dmEnv.calls[j].busyAtCall
        /\ dmEnv.calls[j].outcome = "returned"

\* a loop that made a download was ended by an exception, and the flag is down
C26_WitnessThrew ==
    /\ \E k \in DmCallIds : dmEnv.calls[k].outcome = "threw" /\ dmEnv.calls[k].i > 0
    /\ ~downloadManager.isProcessingQueue

-----------------------------------------------------------------------------
(* The manager's blob URLs: created, downloaded, revoked, cleaned up.      *)

NextUrls ==
    \/ createDownloadUrl
    \/ cleanupAll
    \/ \E url \in 0..nextUrl : revokeUrl(url) \/ RevokeTimer(url)
    \/ \E url \in 1..nextUrl :
        \/ \E revoke \in BOOLEAN : downloadFile(url, revoke)
        \/ addToQueue(url)

SpecUrls == InitRace /\ [][NextUrls]_vars

\* C27: whatever createDownloadUrl, revokeUrl, downloadFile and cleanupAll
\* calls were made, activeUrls holds exactly the URLs createDownloadUrl made
\* that have not been revoked since, and a cleanupAll leaves both activeUrls
\* and the download queue empty.
C27_ActiveUrlsAreLiveUrls ==
    /\ [](downloadManager.activeUrls = dmEnv.created \ revokedUrls)
    /\ [][cleanupAll => /\ downloadManager'.activeUrls = {}
                        /\ downloadManager'.downloadQueue = <<>>]_vars

\* one created URL was downloaded and revoked by its timer, another is still active
C27_Witness ==
    /\ downloadManager.activeUrls # {}
    /\ dmEnv.created \cap revokedUrls # {}
    /\ dmEnv.clicks # <<>>
    /\ dmEnv.timers = {}

\* cleanupAll has emptied a manager that had URLs and a queued download
C27_WitnessCleanup ==
    /\ Cardinality(dmEnv.created) = MaxUrls
    /\ dmEnv.created \subseteq revokedUrls
    /\ dmEnv.clicks = <<>>
    /\ downloadManager.downloadQueue = <<>>

-----------------------------------------------------------------------------
(* SpecReset: resetApp pressed while an upload or a split is at an await.  *)

NextReset ==
    \/ HandleFileUploadRace(1)
    \/ Upload(1)
    \/ HandleSplitApp(1)
    \/ Engine(1)
    \/ CopyOrSaveFails(1)
    \/ HandleSplitResume(1)
    \/ HandleSplitCatch(1)
    \/ resetApp

SpecReset == InitRace /\ [][NextReset]_vars

\* the application state of a freshly constructed PDFSplitApp
AppInitial ==
    /\ currentPDF = Null
    /\ currentFileName = <<>>
    /\ splitResults = <<>>
    /\ ~previewShown
    /\ ~resultsShown

\* this step is the continuation of a handleFileUpload or handleSplit call that
\* was at an await
InFlightStep ==
    \/ \E u \in UploadIds : uploads[u].pc # "idle" /\ uploads'[u] # uploads[u]
    \/ \E c \in CallIds : calls[c].pc # "idle" /\ calls'[c] # calls[c]

\* C28: once resetApp has run, the operations that were in flight at that
\* moment (an upload past its validation has set currentFileName, a split has
\* a loaded currentPDF, so only resetApp leads to the initial state with one
\* of them in flight) settle without taking the application out of its
\* initial state: currentPDF null, currentFileName empty, splitResults empty,
\* neither the preview nor the results section shown.
C28_ResetSurvivesInFlight ==
    [][(AppInitial /\ InFlightStep) => AppInitial']_vars

-----------------------------------------------------------------------------
(* SpecLoad: uploads in which the timer of loadPDF is sure to fire, while  *)
(* the PDF.js loading task may stay pending for ever.                      *)

SpecLoad ==
    InitFresh /\ [][NextUpload]_vars /\ \A u \in UploadIds : WF_vars(LoadPDFJsTimeout(u))

\* what handleFileUpload shows when loadPDF threw for this error
ShownLoadError(error) == ErrUploadPrefix \o LoadErrorMessage(error)

\* C29: once pdf-lib has loaded the buffer, loadPDF does not hang on PDF.js:
\* it leaves its wait on the race; when the timer fires with the task still
\* pending it throws the timeout error; when the task settles first it returns
\* the task's document or throws for the task's error.
C29_LoadPDFNeverHangs ==
    /\ \A u \in UploadIds : (uploads[u].pc = "pdfjs") ~> (uploads[u].pc # "pdfjs")
    /\ [][\A u \in UploadIds :
            /\ LoadPDFJsTimeout(u)
               => /\ uploads'[u].outcome = "loadFailed"
                  /\ uiError' = ErrUploadPrefix \o ErrTimeout
            /\ LoadPDFJsResolve(u)
               => /\ currentPDF'.pdfJS = "pdfViewer"
                  /\ getPageCount(currentPDF') = uploads[u].file.pages
            /\ LoadPDFJsReject(u)
               => /\ uploads'[u].outcome = "loadFailed"
                  /\ uiError' \in {ShownLoadError(error) : error \in PdfJsErrors}]_vars

\* the timer has fired on a pending task and the upload ended with the timeout error
C29_Witness ==
    \E u \in UploadIds :
        /\ uploads[u].pc = "idle"
        /\ uploads[u].outcome = "loadFailed"
        /\ uiError = ErrUploadPrefix \o ErrTimeout

-----------------------------------------------------------------------------
(* SpecGate: uploads of files that pass or fail each check made before     *)
(* loadPDF.                                                                *)

NameATxt == <<"a", ".", "t", "x", "t">>

FileNoEof == [FileA EXCEPT !.tail = <<"e", "n", "d", "o", "b", "j">>, !.content = "E"]
FileMinSize == [FileA EXCEPT !.size = MinFileSize, !.content = "M"]
FileHuge == [FileA EXCEPT !.size = maxFileSize + 1, !.content = "H"]
FileEmpty == [FileA EXCEPT !.size = 0, !.head = <<>>, !.tail = <<>>, !.content = ""]
FileText == [FileA EXCEPT !.name = NameATxt, !.content = "T"]
FileWrongType == [FileA EXCEPT !.type = "text/plain", !.content = "W"]

GateFiles ==
    {FileA, FileB, FileNoEof, FileMinSize, FileTiny, FileHuge, FileEmpty, FileText,
     FileWrongType, FileBadHeader}

\* a file is chosen or dropped
HandleFileUploadGate(u) ==
    /\ uploads[u].pc = "idle"
    /\ \E file \in GateFiles : HandleFileUploadOn(u, file)

NextGate == HandleFileUploadGate(1) \/ Upload(1)

SpecGate == InitRace /\ [][NextGate]_vars

\* the upload has got as far as pdfProcessor.loadPDF
ReachedLoader(u) == uploads[u].pc \in {"loadPDF", "pdfjs", "thumbnails"}

\* the checks a file must pass: a name ending in .pdf in any case, a MIME type
\* that is empty or application/pdf, a size from 1024 bytes to 50 MB, both
\* included, and %PDF- as its first five bytes
PassesAllChecks(file) ==
    /\ EndsWithPdf(file.name)
    /\ file.type \in {"", "application/pdf"}
    /\ file.size >= MinFileSize
    /\ file.size <= maxFileSize
    /\ file.head = PdfMagic

\* C30: in handleFileUpload, loadPDF is reached only by a file that validateFile
\* accepted and whose first five bytes readFile found to be %PDF-; a file that
\* fails a check never reaches the loader; and a file read with a good header
\* can go on to the loader whether or not it ends with %%EOF.
C30_LoaderBehindChecks ==
    \A u \in UploadIds :
        /\ ReachedLoader(u) => PassesAllChecks(uploads[u].file)
        /\ (uploads[u].pc = "readFile" /\ uploads[u].file.head = PdfMagic)
           => ENABLED ReadFileResolve(u)

\* a file without the %%EOF marker is at the loader
C30_Witness ==
    \E u \in UploadIds : uploads[u].pc = "loadPDF" /\ TrailerWarning(uploads[u].file)

\* a file of the largest size allowed, named in capitals and without a MIME type,
\* is at the loader
C30_WitnessBoundary ==
    \E u \in UploadIds : uploads[u].pc = "loadPDF" /\ uploads[u].file = FileB

=============================================================================
